---- MODULE Spec2Model ----
(***************************************************************************)
(* meetCITAD backend: QR signing / verification, the attendance scan       *)
(* endpoint and the Bull job queues with their admin surface.              *)
(***************************************************************************)
EXTENDS Integers, Sequences, FiniteSets, TLC

VARIABLES
  now,            \* Date.now(), milliseconds
  ticks,          \* number of clock advances taken so far
  issued,         \* QR contents produced by generateUserTicketQR
  sigCheck,       \* last call of QRService.verifySignature: input and outcome
  qrCheck,        \* last call of QRService.verifyQRCode: input and outcome
  scan,           \* last request of POST /attendance/scan: input, verification, response
  registeredEvents, \* user.registeredEvents: per user and event the registration entry
  attendedCount,  \* event.attendedCount
  jobs,           \* Bull job records by job id
  completedSet,   \* per queue: ids kept in the completed set, oldest first
  failedSet,      \* per queue: ids kept in the failed set, oldest first
  failedCount,    \* per queue: number of moves to failed so far
  paused,         \* per queue: the queue is paused (queue.pause() without resume)
  certificates,   \* Certificate collection: per user the records for the event
  certRun,        \* last run of the certificate processor: job, result, outcome
  repeat,         \* scheduled queue: the registry of repeatable jobs (key, next run)
  repeatDelayed,  \* scheduled queue: the delayed instances of repeatable jobs
  setups,         \* number of runs of setupRecurringJobs (server starts)
  sweepRun,       \* last run of the scheduled processor: job, time, jobs fanned out
  procRun,        \* last run of the email, sms, notification or analytics processor
  notifications,  \* the Notification collection, in order of creation
  pendingRun,     \* last call of Notification.getPendingNotifications: time, documents, result
  adminReq,       \* last request to the queue admin router: credentials, answer
  feedbacks,      \* the Feedback collection, in order of creation
  analyticsRun,   \* last run of the analytics processor: job, type, result
  listRun,        \* last request of GET /:name/jobs: query and the jobs answered
  checkins,       \* check-in requests in progress: position, documents loaded, answer
  attendance,     \* last manual, bulk or undo check-in request served alone: input, answer
  note,           \* one notification document: channels, status, retryCount, maxRetries
  noteCalls,      \* number of calls made on the notification document
  admin,          \* the Admin document: status, loginAttempts, lockUntil
  loginRun        \* last request of POST /auth/admin/login: input, answer

qrVars == <<issued, sigCheck, qrCheck, scan, registeredEvents, attendedCount>>
queueVars == <<jobs, completedSet, failedSet, failedCount>>
clockVars == <<now, ticks>>
certVars == <<certificates, certRun>>
repeatVars == <<repeat, repeatDelayed, setups>>
notifVars == <<notifications, pendingRun>>
analyticsVars == <<feedbacks, analyticsRun>>
retryVars == <<note, noteCalls>>
loginVars == <<admin, loginRun>>
lastVars == <<checkins, attendance, retryVars, loginVars>>
laterVars == <<listRun, lastVars>>
lateVars == <<analyticsVars, laterVars>>
restVars == <<adminReq, procRun, notifVars, lateVars>>
extVars == <<paused, certVars, repeatVars, sweepRun, restVars>>
vars == <<now, ticks, issued, sigCheck, qrCheck, scan, registeredEvents,
          attendedCount, jobs, completedSet, failedSet, failedCount, paused,
          certificates, certRun, repeat, repeatDelayed, setups, sweepRun, adminReq, procRun,
          notifications, pendingRun, feedbacks, analyticsRun, listRun, checkins,
          attendance, note, noteCalls, admin, loginRun>>

----------------------------------------------------------------------------
(* Bounds *)

DigestLen == 2      \* hex digits kept of the HMAC digest
MaxTicks == 1       \* clock advances explored
MaxIssued == 1      \* tickets generated by the server
MaxJobs == 1        \* jobs enqueued while exploring the job life cycle
MaxAdminRetries == 1 \* manual retries of one job through the admin route
StreamExtra == 2    \* jobs of the failing stream beyond removeOnFail
AdminWindow == 1    \* jobs of the failing stream during which the admin acts
MaxSetups == 2      \* server starts, each running setupRecurringJobs
MaxElapse == 3      \* advances of the clock while handlers run
MaxNotifications == 2 \* notifications created
MaxFeedbacks == 2   \* feedback documents created
MaxCleanJobs == 2   \* jobs enqueued before the queues are cleaned
MaxListJobs == 2    \* jobs enqueued before the jobs of the queue are listed
MaxSweeps == 3      \* instances of the recurring 24h sweep that become due
MaxCheckins == 2    \* check-in requests the server works on
MaxNoteCalls == 4   \* calls made on one notification document
MaxLogins == 7      \* requests of POST /auth/admin/login

(* Program constants *)

maxAge == 24 * 60 * 60 * 1000
StartTime == 10 * maxAge
TickSteps == {maxAge, maxAge + 1}
signatureKey == 11

Users == {"u1", "u2"}
Events == {"e1"}
UserIds == Users \cup {"ghost"}
EventIds == Events \cup {"e9"}

----------------------------------------------------------------------------
(* JavaScript values that can reach the signature argument *)

JStr(s) == [t |-> "string", s |-> s, n |-> 0]
JArr(s) == [t |-> "array", s |-> s, n |-> 0]
JNum(n) == [t |-> "number", s |-> <<>>, n |-> n]
JNull == [t |-> "null", s |-> <<>>, n |-> 0]
JUndefined == [t |-> "undefined", s |-> <<>>, n |-> 0]

\* !x of JavaScript
Falsy(x) ==
  \/ x.t \in {"null", "undefined"}
  \/ x.t = "string" /\ x.s = <<>>
  \/ x.t = "number" /\ x.n = 0

RECURSIVE Pow16(_)
Pow16(k) == IF k = 0 THEN 1 ELSE 16 * Pow16(k - 1)

\* code unit of a lower-case hex digit
HexChar(d) == IF d < 10 THEN 48 + d ELSE 87 + d

\* digest('hex'): DigestLen lower-case hex digits
ToHex(n, len) == [i \in 1..len |-> HexChar((n \div Pow16(len - i)) % 16)]

RECURSIVE Utf8(_)
\* Buffer.from(string): UTF-8 bytes of the code points
Utf8(s) ==
  IF s = <<>> THEN <<>>
  ELSE LET c == Head(s)
       IN (IF c < 128 THEN <<c>> ELSE <<192 + (c \div 64), 128 + (c % 64)>>)
          \o Utf8(Tail(s))

\* Buffer.from(value): bytes, or a TypeError for a value that is neither a
\* string nor array-like
BufferFrom(x) ==
  CASE x.t = "string" -> [threw |-> FALSE, bytes |-> Utf8(x.s)]
    [] x.t = "array" -> [threw |-> FALSE, bytes |-> [i \in 1..Len(x.s) |-> x.s[i] % 256]]
    [] OTHER -> [threw |-> TRUE, bytes |-> <<>>]

\* crypto.timingSafeEqual: RangeError on different byte lengths
timingSafeEqual(a, b) ==
  IF Len(a) # Len(b) THEN [threw |-> TRUE, value |-> FALSE]
  ELSE [threw |-> FALSE, value |-> (a = b)]

----------------------------------------------------------------------------
(* Texts: the strings that are signed and parsed.  A text is described by   *)
(* what JSON.parse makes of it.                                             *)

Text(k, u, e, tk, ts) == [k |-> k, userId |-> u, eventId |-> e, tsKind |-> tk, ts |-> ts]
GarbageText == Text("garbage", "", "", "missing", 0)
NullText == Text("null", "", "", "missing", 0)
NumberText == Text("number", "", "", "missing", 0)
Envelope(u, e, tk, ts) == Text("envelope", u, e, tk, ts)

\* JSON.stringify(qrData) of generateUserTicketQRData
JSONstringify(qrData) == Envelope(qrData.userId, qrData.eventId, "number", qrData.timestamp)

\* JSON.parse(text): SyntaxError for a text that is not JSON
JSONparse(text) ==
  IF text.k = "garbage" THEN [threw |-> TRUE, value |-> text]
  ELSE [threw |-> FALSE, value |-> text]

IdCode(id) == CASE id = "u1" -> 1 [] id = "u2" -> 2 [] id = "e1" -> 3 [] id = "ghost" -> 4 [] id = "e9" -> 5 [] OTHER -> 0
TsCode(x) == CASE x.tsKind = "number" -> 4 + (x.ts % 251)
               [] x.tsKind = "nonnumeric" -> 1
               [] x.tsKind = "null" -> 2
               [] OTHER -> 0
TextCode(x) == CASE x.k = "garbage" -> 1
                 [] x.k = "null" -> 2
                 [] x.k = "number" -> 3
                 [] OTHER -> 5 + IdCode(x.userId) + 5 * IdCode(x.eventId) + 30 * TsCode(x)

\* the data argument: a text, or a value that is not a string
DText(x) == [t |-> "text", text |-> x]
DNumber == [t |-> "number", text |-> NumberText]
DUndefined == [t |-> "undefined", text |-> NullText]
DEmpty == [t |-> "empty", text |-> NullText]

\* crypto.createHmac('sha256', key).update(data).digest('hex');
\* update() throws for a value that is not a string
createHmac(key, data) ==
  IF data.t \notin {"text", "empty"} THEN [threw |-> TRUE, value |-> <<>>]
  ELSE [threw |-> FALSE,
        value |-> ToHex(((IF data.t = "empty" THEN 0 ELSE TextCode(data.text)) * 31
                          + key * 17) % Pow16(DigestLen), DigestLen)]

generateSignature(data) == createHmac(signatureKey, data)

\* the expected signature computed under another key than the one that signed
verifySignatureBodyOtherKey(data, signature) ==
  LET expected == createHmac(signatureKey + 1, data)
      a == BufferFrom(signature)
      b == BufferFrom(JStr(expected.value))
  IN IF expected.threw \/ a.threw \/ b.threw THEN [threw |-> TRUE, value |-> FALSE]
     ELSE timingSafeEqual(a.bytes, b.bytes)

verifySignatureBody(data, signature) ==
  LET expected == generateSignature(data)
      a == BufferFrom(signature)
      b == BufferFrom(JStr(expected.value))
  IN IF expected.threw \/ a.threw \/ b.threw THEN [threw |-> TRUE, value |-> FALSE]
     ELSE timingSafeEqual(a.bytes, b.bytes)

verifySignatureNoCatch(data, signature) == verifySignatureBody(data, signature)

\* try { ... } catch (error) { return false; }
verifySignature(data, signature) ==
  LET r == verifySignatureBody(data, signature)
  IN IF r.threw THEN [threw |-> FALSE, value |-> FALSE] ELSE r

----------------------------------------------------------------------------
(* Scanned QR content: the outer JSON text {data, signature} *)

Content(k, d, sg) == [k |-> k, data |-> d, signature |-> sg]
GarbageContent == Content("garbage", DUndefined, JUndefined)
NullContent == Content("null", DUndefined, JUndefined)
NumberContent == Content("number", DUndefined, JUndefined)

\* Date.now() - qrData.timestamp, with NaN for a timestamp that is undefined
\* or does not convert to a number, and null converting to 0
\* the subtraction written the other way round
qrAgeOfReversed(qrData, t) ==
  CASE qrData.k = "envelope" /\ qrData.tsKind = "number" -> [nan |-> FALSE, v |-> qrData.ts - t]
    [] qrData.k = "envelope" /\ qrData.tsKind = "null" -> [nan |-> FALSE, v |-> 0 - t]
    [] OTHER -> [nan |-> TRUE, v |-> 0]

qrAgeOf(qrData, t) ==
  CASE qrData.k = "envelope" /\ qrData.tsKind = "number" -> [nan |-> FALSE, v |-> t - qrData.ts]
    [] qrData.k = "envelope" /\ qrData.tsKind = "null" -> [nan |-> FALSE, v |-> t]
    [] OTHER -> [nan |-> TRUE, v |-> 0]

\* a > b of JavaScript: any comparison with NaN is false
JsGreater(a, b) == ~a.nan /\ a.v > b

Result(valid, error, data) == [threw |-> FALSE, valid |-> valid, error |-> error, data |-> data]
Thrown == [threw |-> TRUE, valid |-> FALSE, error |-> "", data |-> NullText]

MsgFormat == "Invalid QR code format"
MsgSignature == "QR code signature is invalid. Possible tampering detected."
MsgExpired == "QR code has expired"
MsgFailed == "Failed to verify QR code"

\* the try block of verifyQRCode
verifyQRCodeBody(qrContent, t) ==
  IF qrContent.k \in {"garbage", "null"} THEN Thrown
  ELSE LET data == IF qrContent.k = "object" THEN qrContent.data ELSE DUndefined
           signature == IF qrContent.k = "object" THEN qrContent.signature ELSE JUndefined
       IN IF data.t \in {"undefined", "empty"} \/ Falsy(signature)
          THEN Result(FALSE, MsgFormat, NullText)
          ELSE LET isValid == verifySignature(data, signature)
               IN IF isValid.threw THEN Thrown
                  ELSE IF ~isValid.value THEN Result(FALSE, MsgSignature, NullText)
                  ELSE LET p == JSONparse(data.text)
                       IN IF p.threw \/ p.value.k = "null" THEN Thrown
                          ELSE IF JsGreater(qrAgeOf(p.value, t), maxAge)
                               THEN Result(FALSE, MsgExpired, NullText)
                               ELSE Result(TRUE, "", p.value)

verifyQRCodeNoCatch(qrContent, t) == verifyQRCodeBody(qrContent, t)

\* try { ... } catch (error) { return { valid: false, error: 'Failed to verify QR code' }; }
verifyQRCode(qrContent, t) ==
  LET r == verifyQRCodeBody(qrContent, t)
  IN IF r.threw THEN Result(FALSE, MsgFailed, NullText) ELSE r

----------------------------------------------------------------------------
(* Inputs *)

\* the digest of a text as a string
Sig(x) == generateSignature(DText(x)).value

\* one hex digit of the signature replaced by the next digit
Mutated(s, i) ==
  [j \in 1..Len(s) |->
     IF j # i THEN s[j]
     ELSE LET d == IF s[j] < 58 THEN s[j] - 48 ELSE s[j] - 87
          IN HexChar((d + 1) % 16)]

\* the signature values tried against a text
SignatureInputs(x) ==
  LET s == Sig(x)
  IN {JStr(s)}
     \cup {JStr(Mutated(s, i)) : i \in 1..Len(s)}
     \cup {JStr(SubSeq(s, 1, Len(s) - 1)), JStr(s \o <<48>>), JStr(<<>>)}
     \cup {JStr(<<233>> \o Tail(s)), JStr([j \in 1..Len(s) |-> IF s[j] > 96 THEN s[j] - 32 ELSE 233])}
     \cup {JArr(s), JArr([j \in 1..Len(s) |-> s[j] + 256]), JArr(Mutated(s, 1)), JArr(<<>>)}
     \cup {JNum(7), JNum(0), JNull, JUndefined}

TimestampInputs(t) ==
  {<<"number", t - maxAge - 1>>, <<"number", t - maxAge>>, <<"number", t>>,
   <<"number", t + 1>>, <<"missing", 0>>, <<"nonnumeric", 0>>, <<"null", 0>>}

TextInputs(t) ==
  {GarbageText, NullText, NumberText}
  \cup {Envelope("u1", "e1", ts[1], ts[2]) : ts \in TimestampInputs(t)}

DataInputs(t) == {DText(x) : x \in TextInputs(t)} \cup {DNumber, DUndefined, DEmpty}

ContentInputs(t) ==
  {GarbageContent, NullContent, NumberContent}
  \cup UNION {{Content("object", DText(x), sg) : sg \in SignatureInputs(x)} : x \in TextInputs(t)}
  \cup {Content("object", d, JStr(Sig(NullText))) : d \in {DNumber, DUndefined, DEmpty}}

\* options.attempts of an enqueue call: 0 for none
OptionAttempts == {0, 1}

\* the queue of the failing stream
StreamQueue == "scheduled"

\* grace of POST /clean: the default of one hour, and none
GraceInputs == {3600000, 0}

\* the requests tried against the scan endpoint
ScanSignatureInputs(x) == {JStr(Sig(x)), JStr(Mutated(Sig(x), 1)), JArr(Sig(x))}

ScanTimestampInputs(t) == {<<"number", t - maxAge - 1>>, <<"number", t>>, <<"missing", 0>>}

ScanTextInputs(t) ==
  {GarbageText, NumberText}
  \cup {Envelope(u, e, ts[1], ts[2]) : u \in UserIds, e \in EventIds, ts \in ScanTimestampInputs(t)}

ScanInputs(t) ==
  {GarbageContent, NumberContent, Content("object", DUndefined, JStr(Sig(NullText)))}
  \cup UNION {{Content("object", DText(x), sg) : sg \in ScanSignatureInputs(x)} : x \in ScanTextInputs(t)}

----------------------------------------------------------------------------
(* QR service and attendance scan endpoint: state and operations *)

Queues == {"email", "sms", "notification", "certificate", "analytics", "scheduled"}

NoSigCheck == [called |-> FALSE, data |-> DUndefined, signature |-> JUndefined,
               threw |-> FALSE, value |-> FALSE]
NoQrCheck == [called |-> FALSE, content |-> NullContent, at |-> 0, r |-> Thrown]
NoResponse == [status |-> 0, message |-> ""]
NoScan == [called |-> FALSE, content |-> NullContent, at |-> 0, verified |-> FALSE,
           verification |-> Thrown, res |-> NoResponse, changed |-> FALSE]

Registration(registered, attended, status, checkInTime) ==
  [registered |-> registered, attended |-> attended, status |-> status,
   checkInTime |-> checkInTime]

QRInit ==
  /\ now = StartTime
  /\ ticks = 0
  /\ issued = {}
  /\ sigCheck = NoSigCheck
  /\ qrCheck = NoQrCheck
  /\ scan = NoScan
  /\ registeredEvents =
       [u \in Users |-> [e \in Events |->
          IF u = "u1" THEN Registration(TRUE, FALSE, "registered", 0)
          ELSE Registration(FALSE, FALSE, "none", 0)]]
  /\ attendedCount = [e \in Events |-> 0]

\* the clock advances
Tick(d) ==
  /\ ticks < MaxTicks
  /\ now' = now + d
  /\ ticks' = ticks + 1
  /\ UNCHANGED <<qrVars, queueVars, extVars>>

\* generateUserTicketQRData + generateUserTicketQR: the content of a ticket
generateUserTicketQRData(u, e, t) ==
  LET qrData == [userId |-> u, eventId |-> e, timestamp |-> t]
      dataString == JSONstringify(qrData)
  IN Content("object", DText(dataString), JStr(generateSignature(DText(dataString)).value))

GenerateUserTicketQR(u, e) ==
  /\ Cardinality(issued) < MaxIssued
  /\ issued' = issued \cup {generateUserTicketQRData(u, e, now)}
  /\ UNCHANGED <<clockVars, sigCheck, qrCheck, scan, registeredEvents, attendedCount, queueVars, extVars>>

\* a call of QRService.verifySignature
VerifySignatureOp(data, signature) ==
  /\ LET r == verifySignature(data, signature)
     IN sigCheck' = [called |-> TRUE, data |-> data, signature |-> signature,
                     threw |-> r.threw, value |-> r.value]
  /\ UNCHANGED <<clockVars, issued, qrCheck, scan, registeredEvents, attendedCount, queueVars, extVars>>

\* a call of QRService.verifyQRCode
VerifyQRCodeOp(content) ==
  /\ qrCheck' = [called |-> TRUE, content |-> content, at |-> now,
                 r |-> verifyQRCode(content, now)]
  /\ UNCHANGED <<clockVars, issued, sigCheck, scan, registeredEvents, attendedCount, queueVars, extVars>>

\* verification.message: the verifier's result has no such property
verificationMessage(verification) == ""

verificationError(verification) == verification.error

\* new AppError(verification.message || 'Invalid QR code', 400)
invalidQRError(verification) ==
  [status |-> 400,
   message |-> IF verificationMessage(verification) # ""
               THEN verificationMessage(verification) ELSE "Invalid QR code"]

\* validateQRScan: qrData notEmpty and isJSON, signature notEmpty
validateQRScan(content, bodySignature) ==
  content.k = "object" /\ bodySignature

\* POST /attendance/scan: validateQRScan, then AttendanceController.scanQRCode
ScanQRCode(content, bodySignature) ==
  LET verification == verifyQRCode(content, now)
      userId == verification.data.userId
      eventId == verification.data.eventId
      Answer(verified, res, changed) ==
        scan' = [called |-> TRUE, content |-> content, at |-> now, verified |-> verified,
                 verification |-> verification, res |-> res, changed |-> changed]
  IN /\ IF ~validateQRScan(content, bodySignature)
        THEN /\ Answer(FALSE, [status |-> 400, message |-> "Validation failed"], FALSE)
             /\ UNCHANGED <<registeredEvents, attendedCount>>
        ELSE IF ~verification.valid
        THEN /\ Answer(TRUE, invalidQRError(verification), FALSE)
             /\ UNCHANGED <<registeredEvents, attendedCount>>
        ELSE IF userId \notin Users
        THEN /\ Answer(TRUE, [status |-> 404, message |-> "User not found"], FALSE)
             /\ UNCHANGED <<registeredEvents, attendedCount>>
        ELSE IF eventId \notin Events
        THEN /\ Answer(TRUE, [status |-> 404, message |-> "Event not found"], FALSE)
             /\ UNCHANGED <<registeredEvents, attendedCount>>
        ELSE IF ~registeredEvents[userId][eventId].registered
        THEN /\ Answer(TRUE, [status |-> 400,
                              message |-> "User is not registered for this event"], FALSE)
             /\ UNCHANGED <<registeredEvents, attendedCount>>
        ELSE IF registeredEvents[userId][eventId].attended
        THEN /\ Answer(TRUE, [status |-> 200, message |-> "User already checked in"], FALSE)
             /\ UNCHANGED <<registeredEvents, attendedCount>>
        ELSE /\ registeredEvents' =
                  [registeredEvents EXCEPT ![userId][eventId] =
                     Registration(TRUE, TRUE, "attended", now)]
             /\ attendedCount' = [attendedCount EXCEPT ![eventId] = @ + 1]
             /\ Answer(TRUE, [status |-> 200, message |-> "Check-in successful"], TRUE)
     /\ UNCHANGED <<clockVars, issued, sigCheck, qrCheck, queueVars, extVars>>

----------------------------------------------------------------------------
(* Job queues: configuration *)

\* defaultJobOptions of queues/config.js
defaultAttempts == 3
removeOnFail == 200
defaultRemoveOnComplete == 100

\* queueSettings.maxStalledCount
maxStalledCount == 2

\* defaultJobOptions.attempts of each queue: { ...defaultJobOptions, ...options.defaultJobOptions }
queueAttempts(q) ==
  CASE q = "email" -> 5
    [] q = "sms" -> 3
    [] q = "notification" -> 3
    [] q = "certificate" -> 3
    [] q = "analytics" -> 2
    [] q = "scheduled" -> 2

\* removeOnComplete of each queue; 0 stands for true (remove at once)
removeOnComplete(q) ==
  CASE q = "email" -> 200
    [] q = "sms" -> 100
    [] q = "notification" -> 100
    [] q = "certificate" -> 50
    [] q = "analytics" -> 0
    [] q = "scheduled" -> 50

\* every enqueue helper passing the default of config.js instead of its own
helperAttemptsDefault(q, optAttempts) ==
  IF optAttempts # 0 THEN optAttempts ELSE defaultAttempts

\* attempts: options.attempts || N of queueEmail, queueSMS, queueNotification,
\* queueCertificate, queueAnalytics and scheduleJob
helperAttempts(q, optAttempts) ==
  IF optAttempts # 0 THEN optAttempts
  ELSE CASE q = "email" -> 5
         [] q = "sms" -> 3
         [] q = "notification" -> 3
         [] q = "certificate" -> 3
         [] q = "analytics" -> 2
         [] q = "scheduled" -> 2

----------------------------------------------------------------------------
(* Job queues: the job life cycle of the Bull queues created by createQueue *)

\* defaultJobOptions.timeout of each queue; 0 stands for none
queueTimeout(q) == IF q = "certificate" THEN 60000 ELSE 0

\* job.data.data of a job enqueued without domain data
NoData == [userId |-> "none", eventId |-> "none"]

Job(q, options, attempts) ==
  [queue |-> q, options |-> options, attempts |-> attempts, attemptsMade |-> 0, stalledCounter |-> 0,
   state |-> "waiting", failedReason |-> "", retries |-> 0, runs |-> 0,
   lastOutcome |-> "none", finishedOn |-> 0, failSeq |-> 0, removedBy |-> "none",
   addedPaused |-> paused[q], type |-> "none", data |-> NoData, timeout |-> queueTimeout(q),
   timeoutOption |-> 0, helper |-> "none", processedOn |-> 0, timeouts |-> 0]

\* what is left of a job whose record was deleted by job.remove() or queue.clean()
Removed(J, by) ==
  [Job(J.queue, J.options, J.attempts) EXCEPT !.state = "removed", !.removedBy = by,
                                              !.addedPaused = FALSE]

Exists(j) == j \in DOMAIN jobs /\ jobs[j].removedBy = "none"

\* one entry too many dropped
DroppedOneMore(set, k) == {set[i] : i \in 1..(IF Len(set) > k - 1 THEN Len(set) - k + 1 ELSE 0)}

\* the ids a set keeping the newest k entries drops
Dropped(set, k) == {set[i] : i \in 1..(IF Len(set) > k THEN Len(set) - k ELSE 0)}
KeepLast(set, k) == IF Len(set) > k THEN SubSeq(set, Len(set) - k + 1, Len(set)) ELSE set

Without(set, j) == SelectSeq(set, LAMBDA i : i # j)

\* the helper awaiting the job's completion before it returns
EnqueueAwaitFinished(q, optAttempts) ==
  /\ jobs' = Append(jobs, [Job(q, optAttempts, helperAttempts(q, optAttempts)) EXCEPT !.state = "completed"])
  /\ UNCHANGED <<completedSet, failedSet, failedCount, clockVars, qrVars, extVars>>

\* queueEmail / queueSMS / queueNotification / queueCertificate /
\* queueAnalytics / scheduleJob: queue.add({type, data}, {...options, attempts})
Enqueue(q, optAttempts) ==
  /\ jobs' = Append(jobs, Job(q, optAttempts, helperAttempts(q, optAttempts)))
  /\ UNCHANGED <<completedSet, failedSet, failedCount, clockVars, qrVars, extVars>>

\* a worker taking a waiting job whether or not the queue is paused
ClaimIgnoringPause(j) ==
  /\ Exists(j) /\ jobs[j].state = "waiting"
  /\ jobs' = [jobs EXCEPT ![j].state = "active", ![j].runs = @ + 1, ![j].processedOn = now]
  /\ UNCHANGED <<completedSet, failedSet, failedCount, clockVars, qrVars, extVars>>

\* a worker takes a waiting job and starts the queue's process handler; the
\* workers of a paused queue take no job
Claim(j) ==
  /\ Exists(j) /\ jobs[j].state = "waiting"
  /\ ~paused[jobs[j].queue]
  /\ jobs' = [jobs EXCEPT ![j].state = "active", ![j].runs = @ + 1, ![j].processedOn = now]
  /\ UNCHANGED <<completedSet, failedSet, failedCount, clockVars, qrVars, extVars>>

\* the 'completed' transition of job j in the job table js, with removeOnComplete
ReturnedIn(js, j) ==
  LET q == js[j].queue
      k == removeOnComplete(q)
      done == [js[j] EXCEPT !.state = "completed", !.lastOutcome = "returned",
                            !.finishedOn = now]
      set == Append(completedSet[q], j)
  IN IF k = 0
     THEN /\ jobs' = [js EXCEPT ![j] = [done EXCEPT !.removedBy = "removeOnComplete"]]
          /\ UNCHANGED completedSet
     ELSE /\ jobs' = [i \in DOMAIN js |->
                        IF i = j THEN done
                        ELSE IF i \in Dropped(set, k)
                             THEN [js[i] EXCEPT !.removedBy = "removeOnComplete"]
                             ELSE js[i]]
          /\ completedSet' = [completedSet EXCEPT ![q] = KeepLast(set, k)]

\* the handler returns
HandlerReturns(j) ==
  /\ Exists(j) /\ jobs[j].state = "active"
  /\ ReturnedIn(jobs, j)
  /\ UNCHANGED <<failedSet, failedCount, clockVars, qrVars, extVars>>

\* the move of job j of the job table js to the failed set, with removeOnFail
MoveToFailedIn(js, j, failed) ==
  LET q == js[j].queue
      set == Append(failedSet[q], j)
  IN /\ jobs' = [i \in DOMAIN js |->
                   IF i = j THEN [failed EXCEPT !.state = "failed", !.finishedOn = now,
                                                !.failSeq = failedCount[q] + 1]
                   ELSE IF i \in Dropped(set, removeOnFail)
                        THEN [js[i] EXCEPT !.removedBy = "removeOnFail"]
                        ELSE js[i]]
     /\ failedSet' = [failedSet EXCEPT ![q] = KeepLast(set, removeOnFail)]
     /\ failedCount' = [failedCount EXCEPT ![q] = @ + 1]

MoveToFailed(j, failed) == MoveToFailedIn(jobs, j, failed)

\* a failed attempt of job j in the job table js: retried after the backoff
\* delay while attempts remain, else the 'failed' transition
ThrewIn(js, j, reason) ==
  LET threw == [js[j] EXCEPT !.attemptsMade = @ + 1, !.lastOutcome = "threw"]
  IN IF threw.attemptsMade < threw.attempts
     THEN /\ jobs' = [js EXCEPT ![j] = [threw EXCEPT !.state = "delayed"]]
          /\ UNCHANGED <<failedSet, failedCount>>
     ELSE MoveToFailedIn(js, j, [threw EXCEPT !.failedReason = reason])

\* the handler throws
HandlerThrows(j) ==
  /\ Exists(j) /\ jobs[j].state = "active"
  /\ ThrewIn(jobs, j, "error")
  /\ UNCHANGED <<completedSet, clockVars, qrVars, extVars>>

\* the backoff delay of a retried job is over
BackoffElapsed(j) ==
  /\ Exists(j) /\ jobs[j].state = "delayed"
  /\ jobs' = [jobs EXCEPT ![j].state = "waiting"]
  /\ UNCHANGED <<completedSet, failedSet, failedCount, clockVars, qrVars, extVars>>

\* a stalled job put back to waiting whatever its stalled counter
StalledAlwaysRequeued(j) ==
  /\ Exists(j) /\ jobs[j].state = "active"
  /\ jobs' = [jobs EXCEPT ![j].stalledCounter = @ + 1, ![j].lastOutcome = "stalled",
                          ![j].state = "waiting"]
  /\ UNCHANGED <<completedSet, failedSet, failedCount, clockVars, qrVars, extVars>>

\* the worker of an active job stops renewing its lock: the 'stalled'
\* transition, bounded by settings.maxStalledCount
Stalled(j) ==
  /\ Exists(j) /\ jobs[j].state = "active"
  /\ LET stalled == [jobs[j] EXCEPT !.stalledCounter = @ + 1, !.lastOutcome = "stalled"]
     IN IF stalled.stalledCounter > maxStalledCount
        THEN MoveToFailed(j, [stalled EXCEPT !.failedReason =
                                       "job stalled more than allowable limit"])
        ELSE /\ jobs' = [jobs EXCEPT ![j] = [stalled EXCEPT !.state = "waiting"]]
             /\ UNCHANGED <<failedSet, failedCount>>
  /\ UNCHANGED <<completedSet, clockVars, qrVars, extVars>>

\* job.retry(): a failed job goes back to waiting
jobRetry(j) ==
  /\ jobs' = [jobs EXCEPT ![j].state = "waiting", ![j].failedReason = "",
                          ![j].finishedOn = 0, ![j].retries = @ + 1]
  /\ failedSet' = [failedSet EXCEPT ![jobs[j].queue] = Without(@, j)]
  /\ UNCHANGED <<completedSet, failedCount>>

\* job.retry() is possible: the job is in the failed set
CanRetry(j) == Exists(j) /\ jobs[j].state = "failed" /\ jobs[j].retries < MaxAdminRetries

\* POST /:name/jobs/:jobId/retry: job.retry() puts a failed job back to
\* waiting; for a job that is not failed it rejects and nothing changes
AdminRetry(j) ==
  /\ CanRetry(j)
  /\ jobRetry(j)
  /\ UNCHANGED <<clockVars, qrVars, extVars>>

\* job.remove()
jobRemove(j) ==
  /\ jobs' = [jobs EXCEPT ![j] = Removed(@, "admin")]
  /\ completedSet' = [completedSet EXCEPT ![jobs[j].queue] = Without(@, j)]
  /\ failedSet' = [failedSet EXCEPT ![jobs[j].queue] = Without(@, j)]
  /\ UNCHANGED failedCount

\* job.remove() is possible: the job of a running handler is locked
CanRemove(j) == Exists(j) /\ jobs[j].state # "active"

\* DELETE /:name/jobs/:jobId: job.remove(); the job of a running handler is
\* locked and is not removed
AdminRemove(j) ==
  /\ CanRemove(j)
  /\ jobRemove(j)
  /\ UNCHANGED <<clockVars, qrVars, extVars>>

\* queue.clean(grace, set): the ids of the set finished at or before now - grace
Cleaned(set, grace) == {set[i] : i \in {n \in 1..Len(set) : jobs[set[n]].finishedOn <= now - grace}}

\* a clean that gives failed jobs the grace of completed ones
CleanedAllSameGrace(grace) ==
  UNION {Cleaned(completedSet[q], grace) \cup Cleaned(failedSet[q], grace) : q \in Queues}

\* the jobs cleanAllQueues(grace) removes: clean(grace, 'completed') and
\* clean(grace * 2, 'failed') on every queue
CleanedAll(grace) ==
  UNION {Cleaned(completedSet[q], grace) \cup Cleaned(failedSet[q], grace * 2) : q \in Queues}

\* cleanAllQueues(grace)
cleanAllQueues(grace) ==
  LET gone == CleanedAll(grace)
  IN /\ jobs' = [i \in DOMAIN jobs |->
                   IF i \in gone THEN Removed(jobs[i], "clean") ELSE jobs[i]]
     /\ completedSet' = [q \in Queues |-> SelectSeq(completedSet[q], LAMBDA i : i \notin gone)]
     /\ failedSet' = [q \in Queues |-> SelectSeq(failedSet[q], LAMBDA i : i \notin gone)]
     /\ UNCHANGED failedCount

\* POST /clean -> cleanAllQueues(grace)
CleanAllQueues(grace) ==
  /\ CleanedAll(grace) # {}
  /\ cleanAllQueues(grace)
  /\ UNCHANGED <<clockVars, qrVars, extVars>>

QueueInit ==
  /\ jobs = <<>>
  /\ completedSet = [q \in Queues |-> <<>>]
  /\ failedSet = [q \in Queues |-> <<>>]
  /\ failedCount = [q \in Queues |-> 0]

\* queue.pause() / queue.resume() on the queues qs
setPaused(qs, v) == paused' = [q \in Queues |-> IF q \in qs THEN v ELSE paused[q]]

\* POST /:name/pause: queue.pause() of the queue of that name
PauseQueue(q) ==
  /\ setPaused({q}, TRUE)
  /\ UNCHANGED <<clockVars, qrVars, queueVars, certVars, repeatVars, sweepRun, restVars>>

\* POST /:name/resume: queue.resume() of the queue of that name
ResumeQueue(q) ==
  /\ setPaused({q}, FALSE)
  /\ UNCHANGED <<clockVars, qrVars, queueVars, certVars, repeatVars, sweepRun, restVars>>

\* POST /pause -> pauseAllQueues(): pause() on every queue
pauseAllQueues ==
  /\ setPaused(Queues, TRUE)
  /\ UNCHANGED <<clockVars, qrVars, queueVars, certVars, repeatVars, sweepRun, restVars>>

\* POST /resume -> resumeAllQueues(): resume() on every queue
resumeAllQueues ==
  /\ setPaused(Queues, FALSE)
  /\ UNCHANGED <<clockVars, qrVars, queueVars, certVars, repeatVars, sweepRun, restVars>>

----------------------------------------------------------------------------
(* The queue admin router: router.use(protect, restrictTo('admin')) *)

\* what a request carries: the access token, the role signed into it, the
\* account its id names and whether the password changed after its issue
Cred(token, role, account, changed) ==
  [token |-> token, role |-> role, account |-> account, changed |-> changed]

Credentials ==
  {Cred("none", "admin", "active", FALSE),
   Cred("invalid", "admin", "active", FALSE),
   Cred("expired", "admin", "active", FALSE),
   Cred("valid", "user", "active", FALSE),
   Cred("valid", "user", "active", TRUE),
   Cred("valid", "user", "missing", FALSE),
   Cred("valid", "admin", "missing", FALSE),
   Cred("valid", "admin", "suspended", FALSE),
   Cred("valid", "admin", "active", FALSE),
   Cred("valid", "admin", "active", TRUE)}

\* the middleware passed the request on
Passed == 0

\* protect without the check of the account status
protectAnyStatus(cred) ==
  IF cred.token = "none" THEN 401
  ELSE IF cred.token \in {"invalid", "expired"} THEN 401
  ELSE IF cred.account = "missing" THEN 401
  ELSE IF cred.role # "admin" /\ cred.changed THEN 401
  ELSE Passed

\* protect: the status of the AppError handed to next, or Passed
protect(cred) ==
  IF cred.token = "none" THEN 401
  ELSE IF cred.token \in {"invalid", "expired"} THEN 401          \* verifyToken
  ELSE IF cred.account = "missing" THEN 401
  ELSE IF cred.account # "active" THEN 403
  \* changedPasswordAfter is a method of User documents only
  ELSE IF cred.role # "admin" /\ cred.changed THEN 401
  ELSE Passed

\* restrictTo(...roles): req.userRole is the role of the token
restrictTo(roles, cred) == IF cred.role \notin roles THEN 403 ELSE Passed

\* router.use(protect, restrictTo('admin'))
routerUse(cred) ==
  IF protect(cred) # Passed THEN protect(cred) ELSE restrictTo({"admin"}, cred)

QueueRoutes == {"stats", "jobs", "retry", "remove", "clean", "pause", "resume",
                "pauseAll", "resumeAll"}

\* the routes that name a job
JobRoutes == {"retry", "remove"}

NoAdminReq == [called |-> FALSE, cred |-> Cred("none", "user", "missing", FALSE),
               status |-> 0, ran |-> FALSE]

\* the handler of a route of the queue admin router, for job j, queue q and
\* grace period g
QueueHandler(route, j, q, g) ==
  CASE route = "retry" /\ CanRetry(j) -> jobRetry(j) /\ UNCHANGED paused
    [] route = "remove" /\ CanRemove(j) -> jobRemove(j) /\ UNCHANGED paused
    [] route = "clean" -> cleanAllQueues(g) /\ UNCHANGED paused
    [] route = "pause" -> setPaused({q}, TRUE) /\ UNCHANGED queueVars
    [] route = "resume" -> setPaused({q}, FALSE) /\ UNCHANGED queueVars
    [] route = "pauseAll" -> setPaused(Queues, TRUE) /\ UNCHANGED queueVars
    [] route = "resumeAll" -> setPaused(Queues, FALSE) /\ UNCHANGED queueVars
    [] OTHER -> UNCHANGED <<queueVars, paused>>    \* statistics, listing, 404

\* a request to a route of the queue admin router
QueueRequest(route, cred, j, q, g) ==
  LET status == routerUse(cred)
  IN /\ adminReq' = [called |-> TRUE, cred |-> cred, status |-> status, ran |-> status = Passed]
     /\ IF status = Passed
        THEN QueueHandler(route, j, q, g)
        ELSE UNCHANGED <<queueVars, paused>>
     /\ UNCHANGED <<clockVars, qrVars, certVars, repeatVars, sweepRun, procRun, notifVars, lateVars>>

----------------------------------------------------------------------------
(* Certificate queue: CertificateService and certificateQueue.process *)

CERTIFICATE_JOB_TYPES == {"generate_single", "generate_bulk", "regenerate"}

\* the Event document of the event: certificates enabled, both users attended
EventDoc(e) == [certificateEnabled |-> TRUE, attendedUsers |-> Users]

\* a value missing where a document is expected
Undefined == "undefined"

\* CertificateService.generateCertificate(user, event, template): event._id
\* is read first (TypeError for a missing event), an existing record is
\* returned, else the record is created unless the generation fails
generateCertificate(user, event, certs, fails) ==
  IF event = Undefined THEN [threw |-> TRUE, certs |-> certs]
  ELSE IF user \in Users /\ certs[user] > 0 THEN [threw |-> FALSE, certs |-> certs]
  ELSE IF user \notin Users \/ fails THEN [threw |-> TRUE, certs |-> certs]
  ELSE [threw |-> FALSE, certs |-> [certs EXCEPT ![user] = @ + 1]]

\* the results object of generateBulkCertificates before any attendee
NoResults == [total |-> 0, generated |-> 0, skipped |-> 0, failed |-> 0, errors |-> {}]

\* CertificateService.generateBulkCertificates(eventId): every attendee is
\* tried on its own; failing is the set of users whose generation throws
generateBulkCertificates(eventId, certs, failing) ==
  IF eventId \notin Events \/ ~EventDoc(eventId).certificateEnabled
  THEN [threw |-> TRUE, certs |-> certs, results |-> NoResults]
  ELSE LET users == EventDoc(eventId).attendedUsers
           skipped == {u \in users : certs[u] > 0}
           failed == {u \in users \ skipped :
                        generateCertificate(u, eventId, certs, u \in failing).threw}
           generated == users \ (skipped \cup failed)
       IN [threw |-> FALSE,
           certs |-> [u \in Users |-> IF u \in generated THEN certs[u] + 1 ELSE certs[u]],
           results |-> [total |-> Cardinality(users), generated |-> Cardinality(generated),
                        skipped |-> Cardinality(skipped), failed |-> Cardinality(failed),
                        errors |-> failed]]

\* a handler that calls generateCertificate(userId, eventId) and creates the
\* record without looking for an existing one
certificateProcessNoLookup(J, certs, failing) ==
  IF J.type = "generate_single"
  THEN [threw |-> J.data.userId \in failing,
        certs |-> [certs EXCEPT ![J.data.userId] = @ + 1],
        results |-> NoResults,
        chain |-> IF J.data.userId \in failing THEN <<>> ELSE <<"notification", "email">>]
  ELSE [threw |-> TRUE, certs |-> certs, results |-> NoResults, chain |-> <<>>]

\* the body of certificateQueue.process for one job: the service call of the
\* job type, then what the handler does with the result
certificateProcess(J, certs, failing) ==
  CASE J.type = "generate_single" ->
         \* generateCertificate({userId, eventId, templateId}): one argument
         LET r == generateCertificate(Undefined, Undefined, certs, J.data.userId \in failing)
         IN [threw |-> r.threw, certs |-> r.certs, results |-> NoResults,
             chain |-> IF r.threw THEN <<>> ELSE <<"notification", "email">>]
    [] J.type = "generate_bulk" ->
         LET r == generateBulkCertificates(J.data.eventId, certs, failing)
         IN [threw |-> r.threw \/ "success" \notin DOMAIN r.results,  \* result.success.length
             certs |-> r.certs, results |-> r.results, chain |-> <<>>]
    [] J.type = "regenerate" ->
         \* generateCertificate({userId, eventId, templateId}) as for a single one
         LET r == generateCertificate(Undefined, Undefined, certs, J.data.userId \in failing)
         IN [threw |-> r.threw, certs |-> r.certs, results |-> NoResults, chain |-> <<>>]
    [] OTHER -> [threw |-> TRUE, certs |-> certs, results |-> NoResults, chain |-> <<>>]

\* the certificate-ready job the handler chains on queue q for job J
CertificateReady(q, J) ==
  [Job(q, 0, helperAttempts(q, 0)) EXCEPT !.type = "certificate_ready", !.data = J.data]

RECURSIVE Chained(_, _)
Chained(chain, J) ==
  IF chain = <<>> THEN <<>>
  ELSE <<CertificateReady(Head(chain), J)>> \o Chained(Tail(chain), J)

NoCertRun == [called |-> FALSE, job |-> 0, type |-> "none", failing |-> {}, before |-> [u \in Users |-> 0],
              results |-> NoResults, threw |-> FALSE]

\* the options argument of an enqueue helper; 0 stands for a value not given
Options(attempts, timeout) == [attempts |-> attempts, timeout |-> timeout]
NoOptions == Options(0, 0)

\* queue.add({type, data}, {...options, attempts: options.attempts || N}) of
\* the helper of queue q; the queue's defaultJobOptions fill what is not given
HelperJob(q, type, data, options) ==
  [Job(q, options.attempts, helperAttempts(q, options.attempts))
     EXCEPT !.type = type, !.data = data, !.timeoutOption = options.timeout,
            !.timeout = IF options.timeout # 0 THEN options.timeout ELSE queueTimeout(q)]

\* queueCertificate: {...options, attempts: options.attempts || 3,
\* timeout: options.timeout || 60000}
queueCertificate(type, data, options) ==
  [HelperJob("certificate", type, data, options)
     EXCEPT !.timeout = IF options.timeout # 0 THEN options.timeout ELSE 60000,
            !.helper = "queueCertificate"]

\* queueBulkCertificates: queueCertificate(GENERATE_BULK, {eventId, templateId},
\* {...options, timeout: 300000})
queueBulkCertificates(data, options) ==
  [queueCertificate("generate_bulk", data, [options EXCEPT !.timeout = 300000])
     EXCEPT !.timeoutOption = options.timeout, !.helper = "queueBulkCertificates"]

\* a call of queueCertificate(type, data, options)
QueueCertificate(type, data, options) ==
  /\ jobs' = Append(jobs, queueCertificate(type, data, options))
  /\ UNCHANGED <<completedSet, failedSet, failedCount, clockVars, qrVars, extVars>>

\* a call of queueBulkCertificates(eventId, templateId, options)
QueueBulkCertificates(data, options) ==
  /\ jobs' = Append(jobs, queueBulkCertificates(data, options))
  /\ UNCHANGED <<completedSet, failedSet, failedCount, clockVars, qrVars, extVars>>

\* a call of queueEmail / queueSMS / queueNotification / queueAnalytics /
\* scheduleJob with options
QueueJob(q, type, options) ==
  /\ jobs' = Append(jobs, [HelperJob(q, type, NoData, options) EXCEPT !.helper = "queue"])
  /\ UNCHANGED <<completedSet, failedSet, failedCount, clockVars, qrVars, extVars>>

\* a timeout that puts the job back to waiting without counting an attempt
TimedOutNotCounted(j) ==
  /\ Exists(j) /\ jobs[j].state = "active"
  /\ jobs[j].timeout # 0 /\ now - jobs[j].processedOn >= jobs[j].timeout
  /\ jobs' = [jobs EXCEPT ![j].timeouts = @ + 1, ![j].state = "waiting"]
  /\ UNCHANGED <<completedSet, failedSet, failedCount, clockVars, qrVars, extVars>>

\* the handler of the active job j has run for the job's timeout: the job's
\* promise is rejected with a timeout error and the attempt fails
TimedOut(j) ==
  /\ Exists(j) /\ jobs[j].state = "active"
  /\ jobs[j].timeout # 0 /\ now - jobs[j].processedOn >= jobs[j].timeout
  /\ ThrewIn([jobs EXCEPT ![j].timeouts = @ + 1], j, "timeout")
  /\ UNCHANGED <<completedSet, clockVars, qrVars, extVars>>

\* no timer of a running job is overdue d milliseconds from now
NoTimerBefore(d) ==
  \A j \in DOMAIN jobs :
    (Exists(j) /\ jobs[j].state = "active" /\ jobs[j].timeout # 0)
      => now + d <= jobs[j].processedOn + jobs[j].timeout

\* time passes while handlers run; a job's timer fires when it is due
Elapse(d) ==
  /\ ticks < MaxElapse
  /\ NoTimerBefore(d)
  /\ now' = now + d
  /\ ticks' = ticks + 1
  /\ UNCHANGED <<qrVars, queueVars, extVars>>

\* the worker runs certificateQueue.process on the active job j
ProcessCertificate(j, failing) ==
  /\ Exists(j) /\ jobs[j].state = "active" /\ jobs[j].queue = "certificate"
  /\ LET out == certificateProcess(jobs[j], certificates, failing)
         js == jobs \o Chained(out.chain, jobs[j])
     IN /\ certificates' = out.certs
        /\ certRun' = [called |-> TRUE, job |-> j, type |-> jobs[j].type, failing |-> failing,
                       before |-> certificates, results |-> out.results, threw |-> out.threw]
        /\ IF out.threw
           THEN ThrewIn(js, j, "error") /\ UNCHANGED completedSet
           ELSE ReturnedIn(js, j) /\ UNCHANGED <<failedSet, failedCount>>
  /\ UNCHANGED <<clockVars, qrVars, paused, repeatVars, sweepRun, restVars>>

----------------------------------------------------------------------------
(* Scheduled queue: the recurring jobs registered at server start *)

Minute == 60 * 1000
Hour == 60 * Minute
Day == 24 * Hour

\* the seven scheduledQueue.add calls of setupRecurringJobs, in order
RecurringJobs ==
  << [type |-> "event_reminder_24h", cron |-> "*/15 * * * *", jobId |-> "event-reminder-24h"],
     [type |-> "event_reminder_1h", cron |-> "*/15 * * * *", jobId |-> "event-reminder-1h"],
     [type |-> "feedback_request", cron |-> "0 10 * * *", jobId |-> "feedback-request"],
     [type |-> "cleanup_notifications", cron |-> "0 2 * * *", jobId |-> "cleanup-notifications"],
     [type |-> "daily_analytics", cron |-> "0 1 * * *", jobId |-> "daily-analytics"],
     [type |-> "weekly_analytics", cron |-> "0 3 * * 1", jobId |-> "weekly-analytics"],
     [type |-> "monthly_analytics", cron |-> "0 4 1 * *", jobId |-> "monthly-analytics"] >>

\* the period and the offset of a cron expression of RecurringJobs (a month
\* is taken as 24 days, which keeps the times within 32-bit integers)
CronPeriod(cron) ==
  CASE cron = "*/15 * * * *" -> 15 * Minute
    [] cron = "0 3 * * 1" -> 7 * Day
    [] cron = "0 4 1 * *" -> 24 * Day
    [] OTHER -> Day

CronOffset(cron) ==
  CASE cron = "0 10 * * *" -> 10 * Hour
    [] cron = "0 2 * * *" -> 2 * Hour
    [] cron = "0 1 * * *" -> 1 * Hour
    [] cron = "0 3 * * 1" -> 3 * Hour
    [] cron = "0 4 1 * *" -> 4 * Hour
    [] OTHER -> 0

\* the first time after t the cron expression matches
NextMillis(cron, t) ==
  LET P == CronPeriod(cron)
      o == CronOffset(cron)
  IN IF t < o THEN o ELSE (((t - o) \div P) + 1) * P + o

\* the key of a repeatable job: queue job name, jobId and cron
RepeatKey(r) == <<"__default__", r.jobId, r.cron>>

\* an insert that never finds an existing member
ZAddAlways(reg, key, score, type) == Append(reg, [key |-> key, next |-> score, type |-> type])

\* ZADD of the registry: the score of an existing member is updated, a new
\* member is inserted
ZAdd(reg, key, score, type) ==
  IF \E i \in DOMAIN reg : reg[i].key = key
  THEN [i \in DOMAIN reg |-> IF reg[i].key = key THEN [reg[i] EXCEPT !.next = score] ELSE reg[i]]
  ELSE Append(reg, [key |-> key, next |-> score, type |-> type])

\* the delayed instance of a repeatable job has the id repeat:<key>:<millis>;
\* adding a job whose id exists adds nothing
AddDelayed(del, key, millis, type) ==
  IF \E i \in DOMAIN del : del[i].key = key /\ del[i].millis = millis
  THEN del
  ELSE Append(del, [key |-> key, millis |-> millis, type |-> type])

\* scheduledQueue.add({type}, {repeat: {cron}, jobId}) at time t
AddRepeatable(st, r, t) ==
  LET millis == NextMillis(r.cron, t)
  IN [repeat |-> ZAdd(st.repeat, RepeatKey(r), millis, r.type),
      delayed |-> AddDelayed(st.delayed, RepeatKey(r), millis, r.type)]

RECURSIVE AddAll(_, _, _)
AddAll(st, rs, t) ==
  IF rs = <<>> THEN st ELSE AddAll(AddRepeatable(st, Head(rs), t), Tail(rs), t)

\* startServer -> setupRecurringJobs(): the seven adds, one after the other
SetupRecurringJobs ==
  /\ setups < MaxSetups
  /\ LET st == AddAll([repeat |-> repeat, delayed |-> repeatDelayed], RecurringJobs, now)
     IN /\ repeat' = st.repeat
        /\ repeatDelayed' = st.delayed
  /\ setups' = setups + 1
  /\ UNCHANGED <<clockVars, qrVars, queueVars, paused, certVars, sweepRun, restVars>>

\* the delayed instance i of a repeatable job is due: it becomes a waiting job
\* of the scheduled queue and the next instance of its key is added
RepeatDue(i) ==
  /\ i \in DOMAIN repeatDelayed
  /\ repeatDelayed[i].millis <= now
  /\ LET e == repeatDelayed[i]
         rest == SelectSeq(repeatDelayed, LAMBDA x : x # e)
         known == \E n \in DOMAIN repeat : repeat[n].key = e.key
         millis == NextMillis(e.key[3], now)
     IN /\ jobs' = Append(jobs, [Job("scheduled", 0, queueAttempts("scheduled"))
                                  EXCEPT !.type = e.type])
        /\ repeatDelayed' = IF known THEN AddDelayed(rest, e.key, millis, e.type) ELSE rest
        /\ repeat' = IF known THEN ZAdd(repeat, e.key, millis, e.type) ELSE repeat
  /\ UNCHANGED <<completedSet, failedSet, failedCount, setups, clockVars, qrVars, paused, certVars, sweepRun, restVars>>

----------------------------------------------------------------------------
(* Scheduled queue: scheduledQueue.process and the sweeps *)

SCHEDULED_JOB_TYPES ==
  {"event_reminder_24h", "event_reminder_1h", "feedback_request", "cleanup_notifications",
   "daily_analytics", "weekly_analytics", "monthly_analytics"}

\* the events collection, documents with the fields of EventSchema: Workshop A
\* starts 24 h 01 min after the start time, Workshop C 25 h after it, the
\* other event 48 h after it
SweepEvents == <<"e1", "e2", "e3">>
EventDocs ==
  [e \in {"e1", "e2", "e3"} |->
     [startDateTime |-> StartTime + (CASE e = "e1" -> 24 * Hour + Minute
                                       [] e = "e2" -> 48 * Hour
                                       [] e = "e3" -> 25 * Hour),
      status |-> "published"]]

\* the users collection, documents with the fields of UserSchema.registeredEvents:
\* u1 holds a confirmed registration for Workshop A and for Workshop C, u2 a
\* cancelled one for each
SweepUsers == <<"u1", "u2">>
UserDocs ==
  [u \in Users |->
     [registeredEvents |->
        << [eventId |-> "e1", status |-> IF u = "u1" THEN "confirmed" ELSE "cancelled",
            attended |-> FALSE],
           [eventId |-> "e3", status |-> IF u = "u1" THEN "confirmed" ELSE "cancelled",
            attended |-> FALSE] >>]]

\* a query condition {field: {$gte: lo, $lt: hi}}: a document without the
\* field does not match
MatchRange(doc, field, lo, hi) ==
  field \in DOMAIN doc /\ doc[field] >= lo /\ doc[field] < hi

\* a query condition {'array.field': value}: some element has the field with
\* that value
MatchElem(arr, field, value) ==
  \E i \in DOMAIN arr : field \in DOMAIN arr[i] /\ arr[i][field] = value

\* Event.find({date: {$gte: lo, $lt: hi}, status: 'published'})
EventFind(lo, hi) ==
  SelectSeq(SweepEvents, LAMBDA e : /\ MatchRange(EventDocs[e], "date", lo, hi)
                                    /\ EventDocs[e].status = "published")

\* User.find({'registeredEvents.event': e, ['registeredEvents.' + field]: value})
UserFind(e, field, value) ==
  SelectSeq(SweepUsers, LAMBDA u : /\ MatchElem(UserDocs[u].registeredEvents, "event", e)
                                   /\ MatchElem(UserDocs[u].registeredEvents, field, value))

\* a job a handler adds to queue q through the queue's helper
Child(q, type, u, e) ==
  [Job(q, 0, helperAttempts(q, 0)) EXCEPT !.type = type, !.data = [userId |-> u, eventId |-> e]]

\* the jobs pushed for the users of one event
RECURSIVE PerUser(_, _, _, _)
PerUser(us, e, type, qs) ==
  IF us = <<>> THEN <<>>
  ELSE [i \in DOMAIN qs |-> Child(qs[i], type, Head(us), e)] \o PerUser(Tail(us), e, type, qs)

\* the jobs pushed for the events found
RECURSIVE PerEvent(_, _, _, _, _)
PerEvent(es, field, value, type, qs) ==
  IF es = <<>> THEN <<>>
  ELSE PerUser(UserFind(Head(es), field, value), Head(es), type, qs)
         \o PerEvent(Tail(es), field, value, type, qs)

\* a 24h sweep whose queries name the fields of the schemas (startDateTime,
\* registeredEvents.eventId, status confirmed)
scheduledProcessSchemaFields(type, t, fails) ==
  LET es == SelectSeq(SweepEvents,
                      LAMBDA e : /\ MatchRange(EventDocs[e], "startDateTime", t + 24 * Hour, t + 25 * Hour)
                                 /\ EventDocs[e].status = "published")
      us(e) == SelectSeq(SweepUsers,
                         LAMBDA u : \E i \in DOMAIN UserDocs[u].registeredEvents :
                                      /\ UserDocs[u].registeredEvents[i].eventId = e
                                      /\ UserDocs[u].registeredEvents[i].status = "confirmed")
      RECURSIVE all(_)
      all(rest) == IF rest = <<>> THEN <<>>
                   ELSE PerUser(us(Head(rest)), Head(rest), "event_reminder", <<"email", "notification">>)
                          \o all(Tail(rest))
  IN [threw |-> fails,
      chain |-> IF fails \/ type # "event_reminder_24h" THEN <<>> ELSE all(es)]

\* the body of scheduledQueue.process for a job of the given type run at
\* time t: the jobs it adds to other queues and whether it throws; fails
\* stands for an error of a query or of a queue add
scheduledProcess(type, t, fails) ==
  LET Out(chain) == [threw |-> fails, chain |-> IF fails THEN <<>> ELSE chain]
  IN CASE type = "event_reminder_24h" ->
            Out(PerEvent(EventFind(t + 24 * Hour, t + 25 * Hour), "status", "registered",
                         "event_reminder", <<"email", "notification">>))
       [] type = "event_reminder_1h" ->
            Out(PerEvent(EventFind(t + Hour, t + Hour + 15 * Minute), "status", "registered",
                         "event_reminder", <<"notification">>))
       [] type = "feedback_request" ->
            Out(PerEvent(EventFind(t - Day, t), "attended", TRUE,
                         "feedback_request", <<"email", "notification">>))
       [] type = "cleanup_notifications" -> Out(<<>>)
       [] type = "daily_analytics" -> Out(<<Child("analytics", "daily_report", "none", "none")>>)
       [] type = "weekly_analytics" -> Out(<<Child("analytics", "weekly_report", "none", "none")>>)
       [] type = "monthly_analytics" -> Out(<<Child("analytics", "monthly_report", "none", "none")>>)
       [] OTHER -> [threw |-> TRUE, chain |-> <<>>]

NoSweepRun == [called |-> FALSE, job |-> 0, type |-> "none", at |-> 0, fails |-> FALSE,
               chain |-> <<>>, threw |-> FALSE]

\* scheduleJob(type): scheduledQueue.add({type, data}, {attempts})
ScheduleJob(type) ==
  /\ jobs' = Append(jobs, [Job("scheduled", 0, helperAttempts("scheduled", 0)) EXCEPT !.type = type])
  /\ UNCHANGED <<completedSet, failedSet, failedCount, clockVars, qrVars, extVars>>

\* the worker runs scheduledQueue.process on the active job j
ProcessScheduled(j, fails) ==
  /\ Exists(j) /\ jobs[j].state = "active" /\ jobs[j].queue = "scheduled"
  /\ LET out == scheduledProcess(jobs[j].type, now, fails)
         js == jobs \o out.chain
     IN /\ sweepRun' = [called |-> TRUE, job |-> j, type |-> jobs[j].type, at |-> now, fails |-> fails,
                        chain |-> out.chain, threw |-> out.threw]
        /\ IF out.threw
           THEN ThrewIn(js, j, "error") /\ UNCHANGED completedSet
           ELSE ReturnedIn(js, j) /\ UNCHANGED <<failedSet, failedCount>>
  /\ UNCHANGED <<clockVars, qrVars, paused, certVars, repeatVars, restVars>>

EMAIL_JOB_TYPES ==
  {"welcome", "event_registration", "event_reminder", "event_update", "certificate_ready",
   "password_reset", "feedback_request", "custom"}

SMS_JOB_TYPES ==
  {"otp", "event_registration", "event_reminder", "certificate_ready", "password_reset", "custom"}

NOTIFICATION_JOB_TYPES ==
  {"create", "event_registration", "event_reminder", "certificate_ready", "feedback_request",
   "broadcast", "bulk"}

ANALYTICS_JOB_TYPES ==
  {"event_stats", "user_stats", "certificate_stats", "feedback_stats", "daily_report",
   "weekly_report", "monthly_report"}

\* the job types the processor of queue q has a case for
JOB_TYPES(q) ==
  CASE q = "email" -> EMAIL_JOB_TYPES
    [] q = "sms" -> SMS_JOB_TYPES
    [] q = "notification" -> NOTIFICATION_JOB_TYPES
    [] q = "analytics" -> ANALYTICS_JOB_TYPES
    [] q = "certificate" -> CERTIFICATE_JOB_TYPES
    [] q = "scheduled" -> SCHEDULED_JOB_TYPES

\* the queues whose processor is one service call per job type
ServiceQueues == {"email", "sms", "notification", "analytics"}

\* a processor whose catch logs the error and returns
queueProcessSwallow(q, type, fails) == [threw |-> FALSE]

\* emailQueue.process (likewise sms, notification, analytics): the switch on
\* the job type, default: throw; the service call throws when fails; the
\* catch logs and rethrows
queueProcess(q, type, fails) == [threw |-> type \notin JOB_TYPES(q) \/ fails]

NoProcRun == [called |-> FALSE, job |-> 0, type |-> "none", fails |-> FALSE]

\* the worker runs the processor of a service queue on the active job j
ProcessJob(j, fails) ==
  /\ Exists(j) /\ jobs[j].state = "active" /\ jobs[j].queue \in ServiceQueues
  /\ procRun' = [called |-> TRUE, job |-> j, type |-> jobs[j].type, fails |-> fails]
  /\ IF queueProcess(jobs[j].queue, jobs[j].type, fails).threw
     THEN ThrewIn(jobs, j, "error") /\ UNCHANGED completedSet
     ELSE ReturnedIn(jobs, j) /\ UNCHANGED <<failedSet, failedCount>>
  /\ UNCHANGED <<clockVars, qrVars, paused, certVars, repeatVars, sweepRun, adminReq, notifVars, lateVars>>

\* a notification document; 0 stands for a date field that is absent
Notification(status, scheduledFor, expiresAt) ==
  [status |-> status, scheduledFor |-> scheduledFor, expiresAt |-> expiresAt]

\* the default expiry of the pre-save hook for a notification of priority
\* urgent, the priority of every notification created here
DefaultExpiry == 7 * Day

\* Notification.create(data): the pre-save hook sets expiresAt when absent
CreateNotification(status, scheduledFor, expiresAt) ==
  /\ Len(notifications) < MaxNotifications
  /\ notifications' =
       Append(notifications,
              Notification(status, scheduledFor,
                           IF expiresAt = 0 THEN now + DefaultExpiry ELSE expiresAt))
  /\ UNCHANGED <<clockVars, qrVars, queueVars, paused, certVars, repeatVars, sweepRun,
                 adminReq, procRun, pendingRun, lateVars>>

\* virtual isExpired: this.expiresAt && this.expiresAt < new Date()
isExpired(n, t) == n.expiresAt # 0 /\ n.expiresAt < t

\* virtual shouldSendNow
shouldSendNow(n, t) ==
  IF n.status # "pending" THEN FALSE
  ELSE IF isExpired(n, t) THEN FALSE
  ELSE IF n.scheduledFor # 0 /\ n.scheduledFor > t THEN FALSE
  ELSE TRUE

\* $or: [{expiresAt: {$gt: now}}, {expiresAt: {$exists: false}}]
OrExpiresAt(n, t) == (n.expiresAt # 0 /\ n.expiresAt > t) \/ n.expiresAt = 0

\* the filter object of getPendingNotifications: of the two $or keys of the
\* object literal the second (on expiresAt) replaces the first (on scheduledFor)
PendingFilter(n, t) == n.status = "pending" /\ OrExpiresAt(n, t)

\* this.find(filter).sort({priority: -1, createdAt: 1}) over documents of
\* one priority: the matching documents in order of creation
Find(docs, t) == SelectSeq([i \in DOMAIN docs |-> i], LAMBDA i : PendingFilter(docs[i], t))

NoPendingRun == [called |-> FALSE, at |-> 0, docs |-> <<>>, result |-> <<>>]

\* Notification.getPendingNotifications()
GetPendingNotifications ==
  /\ pendingRun' = [called |-> TRUE, at |-> now, docs |-> notifications,
                     result |-> Find(notifications, now)]
  /\ UNCHANGED <<clockVars, qrVars, queueVars, paused, certVars, repeatVars, sweepRun,
                 adminReq, procRun, notifications, lateVars>>

----------------------------------------------------------------------------
(* Analytics processor *)

\* everything outside the late variables
earlyVars == <<clockVars, qrVars, queueVars, paused, certVars, repeatVars, sweepRun,
               adminReq, procRun, notifVars>>

\* the collections the analytics processor reads
Db(users, events, certs, fbs) ==
  [users |-> users, events |-> events, certificates |-> certs, feedbacks |-> fbs]

\* Feedback.create: a feedback of user u for event e with ratings.overall r
CreateFeedback(u, e, r) ==
  /\ Len(feedbacks) < MaxFeedbacks
  /\ feedbacks' = Append(feedbacks, [userId |-> u, eventId |-> e, overall |-> r])
  /\ UNCHANGED <<earlyVars, analyticsRun, laterVars>>

\* the number of elements of set S
Count(S) == Cardinality(S)

\* Feedback.find(query): a query on event, a path the schema does not have,
\* matches no document; the empty query matches all
FeedbackFind(fbs, eventId) ==
  IF eventId # "none" THEN {} ELSE DOMAIN fbs

\* an analytics handler that mails each report it has computed
analyticsProcessMailing(type, data, db, fails) ==
  [threw |-> fails \/ type \notin
               {"event_stats", "user_stats", "certificate_stats", "feedback_stats",
                "daily_report", "weekly_report", "monthly_report"},
   db |-> db,
   chain |-> IF ~fails /\ type \in {"daily_report", "weekly_report", "monthly_report"}
             THEN <<Child("email", "custom", "none", "none")>> ELSE <<>>,
   result |-> [defined |-> FALSE, n |-> 0]]

\* the body of analyticsQueue.process for one job: the reads of the job type
\* and the summary computed from them
analyticsProcess(type, data, db, fails) ==
  LET Out(defined, n) ==
        [threw |-> fails, db |-> db, chain |-> <<>>,
         result |-> IF fails THEN [defined |-> FALSE, n |-> 0] ELSE [defined |-> defined, n |-> n]]
  IN CASE type = "event_stats" ->
            \* Event.findById(data.eventId); totalAttendance: event.attendedCount
            IF data.eventId \in DOMAIN db.events
            THEN Out(TRUE, db.events[data.eventId]) ELSE Out(FALSE, 0)
       [] type = "user_stats" ->
            \* User.findById(data.userId); registeredEvents.filter(e => e.attended).length
            IF data.userId \in DOMAIN db.users
            THEN Out(TRUE, Count({e \in DOMAIN db.users[data.userId] :
                                    db.users[data.userId][e].attended}))
            ELSE Out(FALSE, 0)
       [] type = "certificate_stats" ->
            \* Certificate.countDocuments()
            Out(TRUE, Count({u \in DOMAIN db.certificates : db.certificates[u] > 0}))
       [] type = "feedback_stats" ->
            LET found == FeedbackFind(db.feedbacks, data.eventId)
            IN IF found # {} THEN Out(TRUE, Count(found)) ELSE Out(FALSE, 0)
       [] type \in {"daily_report", "weekly_report", "monthly_report"} ->
            \* User / Event / Certificate / Feedback .countDocuments
            Out(TRUE, Count(DOMAIN db.users) + Count(DOMAIN db.events) + Len(db.feedbacks))
       [] OTHER -> [threw |-> TRUE, db |-> db, chain |-> <<>>,
                    result |-> [defined |-> FALSE, n |-> 0]]

NoAnalyticsRun == [called |-> FALSE, job |-> 0, type |-> "none", threw |-> FALSE,
                   result |-> [defined |-> FALSE, n |-> 0]]

\* queueAnalytics(type, data)
QueueAnalytics(type, data) ==
  /\ jobs' = Append(jobs, [HelperJob("analytics", type, data, NoOptions) EXCEPT !.helper = "queue"])
  /\ UNCHANGED <<completedSet, failedSet, failedCount, clockVars, qrVars, extVars>>

\* the worker runs analyticsQueue.process on the active job j
ProcessAnalytics(j, fails) ==
  /\ Exists(j) /\ jobs[j].state = "active" /\ jobs[j].queue = "analytics"
  /\ LET out == analyticsProcess(jobs[j].type, jobs[j].data,
                                 Db(registeredEvents, attendedCount, certificates, feedbacks), fails)
         js == jobs \o out.chain
     IN /\ registeredEvents' = out.db.users
        /\ attendedCount' = out.db.events
        /\ certificates' = out.db.certificates
        /\ feedbacks' = out.db.feedbacks
        /\ analyticsRun' = [called |-> TRUE, job |-> j, type |-> jobs[j].type,
                            threw |-> out.threw, result |-> out.result]
        /\ IF out.threw
           THEN ThrewIn(js, j, "error") /\ UNCHANGED completedSet
           ELSE ReturnedIn(js, j) /\ UNCHANGED <<failedSet, failedCount>>
  /\ UNCHANGED <<clockVars, issued, sigCheck, qrCheck, scan, paused, certRun, repeatVars,
                 sweepRun, adminReq, procRun, notifVars, laterVars>>

----------------------------------------------------------------------------
(* GET /:name/jobs *)

\* the ids of the jobs of queue q in state st, oldest first
IdsIn(q, st) ==
  SelectSeq([i \in DOMAIN jobs |-> i],
            LAMBDA i : Exists(i) /\ jobs[i].queue = q /\ jobs[i].state = st)

\* queue.getWaiting(start, end) and the like: the range of Redis, whose end
\* index is part of the range
getRange(ids, start, end) ==
  SubSeq(ids, start + 1, IF end + 1 < Len(ids) THEN end + 1 ELSE Len(ids))

\* const { status = 'waiting', limit = 50 } = req.query; parseInt(limit)
QueryLimit(limit) == IF limit = <<>> THEN 50 ELSE limit[1]

NoListRun == [called |-> FALSE, status |-> "none", limit |-> 0, code |-> 0, jobs |-> <<>>]

\* the handler of GET /:name/jobs for an existing queue q
GetQueueJobs(q, status, limit) ==
  LET n == QueryLimit(limit)
      found == CASE status = "waiting" -> getRange(IdsIn(q, "waiting"), 0, n)
                 [] status = "active" -> getRange(IdsIn(q, "active"), 0, n)
                 [] status = "completed" -> getRange(completedSet[q], 0, n)
                 [] status = "failed" -> getRange(failedSet[q], 0, n)
                 [] status = "delayed" -> getRange(IdsIn(q, "delayed"), 0, n)
                 [] OTHER -> <<>>
  IN /\ listRun' = [called |-> TRUE, status |-> status, limit |-> n, code |-> 200, jobs |-> found]
     /\ UNCHANGED <<earlyVars, analyticsVars, lastVars>>

----------------------------------------------------------------------------
(* Attendance: check-in requests served concurrently *)

\* what a step of a check-in request leaves alone besides the documents
checkinRest == <<clockVars, issued, sigCheck, qrCheck, scan, queueVars, paused, certVars,
                 repeatVars, sweepRun, adminReq, procRun, notifVars, analyticsVars, listRun,
                 attendance, retryVars, loginVars>>

\* a request of POST /attendance/scan or /attendance/manual-checkin at its
\* first await: the ids it works on, the copies of the documents it has
\* loaded, its position and its answer
CheckIn(kind, userId, eventId) ==
  [kind |-> kind, userId |-> userId, eventId |-> eventId, pc |-> "find",
   userLoaded |-> FALSE, user |-> Registration(FALSE, FALSE, "none", 0),
   eventLoaded |-> FALSE, event |-> 0, res |-> NoResponse]

\* the request ends with answer res
Answered(c, res) == [c EXCEPT !.pc = "done", !.res = res]

\* scanQRCode up to the Promise.all: the QR code is verified
StartScan(content) ==
  /\ Len(checkins) < MaxCheckins
  /\ LET verification == verifyQRCode(content, now)
     IN checkins' =
          Append(checkins,
                 IF ~verification.valid
                 THEN Answered(CheckIn("scan", "none", "none"), invalidQRError(verification))
                 ELSE CheckIn("scan", verification.data.userId, verification.data.eventId))
  /\ UNCHANGED <<checkinRest, registeredEvents, attendedCount>>

\* manualCheckIn up to the Promise.all
StartManual(u, e) ==
  /\ Len(checkins) < MaxCheckins
  /\ checkins' = Append(checkins, CheckIn("manual", u, e))
  /\ UNCHANGED <<checkinRest, registeredEvents, attendedCount>>

\* the code after the Promise.all, up to the first save: the checks on the
\* copies loaded
AfterFind(c) ==
  IF ~(c.userLoaded /\ c.eventLoaded) THEN c
  ELSE IF c.userId \notin Users THEN Answered(c, [status |-> 404, message |-> "User not found"])
  ELSE IF c.eventId \notin Events THEN Answered(c, [status |-> 404, message |-> "Event not found"])
  ELSE IF ~c.user.registered
  THEN Answered(c, [status |-> 400, message |-> "User is not registered for this event"])
  ELSE IF c.user.attended
  THEN Answered(c, IF c.kind = "scan"
                   THEN [status |-> 200, message |-> "User already checked in"]
                   ELSE [status |-> 400, message |-> "User already checked in"])
  ELSE [c EXCEPT !.pc = "saveUser",
                 !.user = Registration(TRUE, TRUE, "attended", now)]

\* User.findById(userId) of request r answers
FindUser(r) ==
  /\ r \in DOMAIN checkins /\ checkins[r].pc = "find" /\ ~checkins[r].userLoaded
  /\ LET c == checkins[r]
         doc == IF c.userId \in Users /\ c.eventId \in Events
                THEN registeredEvents[c.userId][c.eventId] ELSE c.user
     IN checkins' = [checkins EXCEPT ![r] = AfterFind([c EXCEPT !.userLoaded = TRUE, !.user = doc])]
  /\ UNCHANGED <<checkinRest, registeredEvents, attendedCount>>

\* Event.findById(eventId) of request r answers
FindEvent(r) ==
  /\ r \in DOMAIN checkins /\ checkins[r].pc = "find" /\ ~checkins[r].eventLoaded
  /\ LET c == checkins[r]
         doc == IF c.eventId \in Events THEN attendedCount[c.eventId] ELSE c.event
     IN checkins' = [checkins EXCEPT ![r] = AfterFind([c EXCEPT !.eventLoaded = TRUE, !.event = doc])]
  /\ UNCHANGED <<checkinRest, registeredEvents, attendedCount>>

\* await user.save(): the fields set on the registration are written
SaveUser(r) ==
  /\ r \in DOMAIN checkins /\ checkins[r].pc = "saveUser"
  /\ registeredEvents' =
       [registeredEvents EXCEPT ![checkins[r].userId][checkins[r].eventId] = checkins[r].user]
  /\ checkins' = [checkins EXCEPT ![r].pc = "saveEvent", ![r].event = @ + 1]
  /\ UNCHANGED <<checkinRest, attendedCount>>

\* event.attendedCount += 1; await event.save(): the value of the copy is
\* written; the request answers
SaveEvent(r) ==
  /\ r \in DOMAIN checkins /\ checkins[r].pc = "saveEvent"
  /\ attendedCount' = [attendedCount EXCEPT ![checkins[r].eventId] = checkins[r].event]
  /\ checkins' =
       [checkins EXCEPT ![r] =
          Answered(@, [status |-> 200,
                       message |-> IF @.kind = "scan" THEN "Check-in successful"
                                   ELSE "Manual check-in successful"])]
  /\ UNCHANGED <<checkinRest, registeredEvents>>

----------------------------------------------------------------------------
(* Attendance: registration, manual, bulk and undo check-in, one request at a time *)

\* what a request served alone leaves alone besides the documents
attendanceRest == <<clockVars, issued, sigCheck, qrCheck, scan, queueVars, paused, certVars,
                    repeatVars, sweepRun, adminReq, procRun, notifVars, analyticsVars, listRun,
                    checkins, retryVars, loginVars>>

NoAttendance == [op |-> "none", userIds |-> <<>>, eventId |-> "none", status |-> 0,
                 message |-> "", successCount |-> 0, failedCount |-> 0]

\* the request op on users ids and event e answers status and message
AttendanceAnswer(op, ids, e, status, message) ==
  [op |-> op, userIds |-> ids, eventId |-> e, status |-> status, message |-> message,
   successCount |-> 0, failedCount |-> 0]

\* registerForEvent: user.registeredEvents.push({event, registeredAt, status: 'registered'})
RegisterForEvent(u, e) ==
  /\ u \in Users /\ e \in Events
  /\ ~registeredEvents[u][e].registered
  /\ registeredEvents' = [registeredEvents EXCEPT ![u][e] = Registration(TRUE, FALSE, "registered", 0)]
  /\ UNCHANGED <<attendanceRest, attendedCount, attendance>>

\* manualCheckIn served alone
ManualCheckIn(u, e) ==
  LET Answer(status, message) ==
        attendance' = AttendanceAnswer("manual", <<u>>, e, status, message)
  IN /\ IF u \notin Users
        THEN Answer(404, "User not found") /\ UNCHANGED <<registeredEvents, attendedCount>>
        ELSE IF e \notin Events
        THEN Answer(404, "Event not found") /\ UNCHANGED <<registeredEvents, attendedCount>>
        ELSE IF ~registeredEvents[u][e].registered
        THEN /\ Answer(400, "User is not registered for this event")
             /\ UNCHANGED <<registeredEvents, attendedCount>>
        ELSE IF registeredEvents[u][e].attended
        THEN /\ Answer(400, "User already checked in")
             /\ UNCHANGED <<registeredEvents, attendedCount>>
        ELSE /\ registeredEvents' =
                  [registeredEvents EXCEPT ![u][e] = Registration(TRUE, TRUE, "attended", now)]
             /\ attendedCount' = [attendedCount EXCEPT ![e] = @ + 1]
             /\ Answer(200, "Manual check-in successful")
     /\ UNCHANGED attendanceRest

\* the loop of bulkCheckIn over userIds: each user is loaded, checked and
\* saved in turn; the registrations afterwards and the lengths of
\* results.success and results.failed
RECURSIVE MarkAll(_, _, _)
MarkAll(userIds, e, regs) ==
  IF userIds = <<>> THEN [regs |-> regs, success |-> 0, failed |-> 0]
  ELSE LET u == Head(userIds)
           ok == u \in Users /\ regs[u][e].registered /\ ~regs[u][e].attended
           marked == IF ok THEN [regs EXCEPT ![u][e] = Registration(TRUE, TRUE, "attended", now)]
                     ELSE regs
           rest == MarkAll(Tail(userIds), e, marked)
       IN [regs |-> rest.regs,
           success |-> rest.success + (IF ok THEN 1 ELSE 0),
           failed |-> rest.failed + (IF ok THEN 0 ELSE 1)]

\* a bulk check-in that counts every user id of the request
bulkCheckInCountsAll(userIds, e, regs, count) ==
  [regs |-> MarkAll(userIds, e, regs).regs, count |-> count + Len(userIds),
   success |-> MarkAll(userIds, e, regs).success, failed |-> MarkAll(userIds, e, regs).failed]

\* bulkCheckIn after the event is found: the loop, then
\* event.attendedCount += results.success.length
bulkCheckIn(userIds, e, regs, count) ==
  LET out == MarkAll(userIds, e, regs)
  IN [regs |-> out.regs, count |-> count + out.success,
      success |-> out.success, failed |-> out.failed]

\* bulkCheckIn served alone
BulkCheckIn(userIds, e) ==
  /\ IF userIds = <<>>
     THEN /\ attendance' = AttendanceAnswer("bulk", userIds, e, 400, "User IDs array is required")
          /\ UNCHANGED <<registeredEvents, attendedCount>>
     ELSE IF e \notin Events
     THEN /\ attendance' = AttendanceAnswer("bulk", userIds, e, 404, "Event not found")
          /\ UNCHANGED <<registeredEvents, attendedCount>>
     ELSE LET out == bulkCheckIn(userIds, e, registeredEvents, attendedCount[e])
          IN /\ registeredEvents' = out.regs
             /\ attendedCount' = [attendedCount EXCEPT ![e] = out.count]
             /\ attendance' =
                  [AttendanceAnswer("bulk", userIds, e, 200, "Bulk check-in completed")
                     EXCEPT !.successCount = out.success, !.failedCount = out.failed]
  /\ UNCHANGED attendanceRest

\* Math.max(0, n)
Max0(n) == IF n > 0 THEN n ELSE 0

\* undoCheckIn served alone
UndoCheckIn(u, e) ==
  LET Answer(status, message) ==
        attendance' = AttendanceAnswer("undo", <<u>>, e, status, message)
  IN /\ IF u \notin Users
        THEN Answer(404, "User not found") /\ UNCHANGED <<registeredEvents, attendedCount>>
        ELSE IF e \notin Events
        THEN Answer(404, "Event not found") /\ UNCHANGED <<registeredEvents, attendedCount>>
        ELSE IF ~registeredEvents[u][e].registered
        THEN /\ Answer(400, "User is not registered for this event")
             /\ UNCHANGED <<registeredEvents, attendedCount>>
        ELSE IF ~registeredEvents[u][e].attended
        THEN /\ Answer(400, "User has not checked in yet")
             /\ UNCHANGED <<registeredEvents, attendedCount>>
        ELSE /\ registeredEvents' =
                  [registeredEvents EXCEPT ![u][e] = Registration(TRUE, FALSE, "registered", 0)]
             /\ attendedCount' = [attendedCount EXCEPT ![e] = Max0(@ - 1)]
             /\ Answer(200, "Check-in undone successfully")
     /\ UNCHANGED attendanceRest

----------------------------------------------------------------------------
(* Notification document: channels and retries *)

\* what a call on the notification document leaves alone
noteRest == <<clockVars, qrVars, queueVars, paused, certVars, repeatVars, sweepRun, adminReq,
              procRun, notifVars, analyticsVars, listRun, checkins, attendance, loginVars>>

Channels == {"inApp", "email", "sms", "push"}

\* the channels whose schema has an error field
ErrorChannels == {"email", "sms", "push"}

NoNote ==
  [exists |-> FALSE, enabled |-> [ch \in Channels |-> FALSE], sent |-> [ch \in Channels |-> FALSE],
   error |-> [ch \in Channels |-> ""], status |-> "none", retryCount |-> 0, maxRetries |-> 0,
   lastError |-> ""]

\* new Notification({channels, maxRetries}): inApp enabled by default, status
\* pending, retryCount 0
NewNote(email, sms, maxRetries) ==
  [NoNote EXCEPT !.exists = TRUE,
                 !.enabled = [ch \in Channels |-> CASE ch = "inApp" -> TRUE
                                                     [] ch = "email" -> email
                                                     [] ch = "sms" -> sms
                                                     [] OTHER -> FALSE],
                 !.status = "pending", !.maxRetries = maxRetries]

\* methods.markChannelSent(channel)
markChannelSent(n, channel) ==
  IF channel \notin Channels THEN n
  ELSE LET m == [n EXCEPT !.sent[channel] = TRUE]
       IN IF \A ch \in Channels : ~m.enabled[ch] \/ m.sent[ch]
          THEN [m EXCEPT !.status = "sent"] ELSE m

\* methods.markChannelFailed(channel, error)
markChannelFailed(n, channel, error) ==
  IF channel \notin Channels THEN n
  ELSE LET m == [n EXCEPT !.error[channel] = IF channel \in ErrorChannels THEN error ELSE @,
                          !.lastError = error,
                          !.retryCount = @ + 1]
       IN IF m.retryCount >= m.maxRetries THEN [m EXCEPT !.status = "failed"] ELSE m

\* methods.retry(): throws at the maximum, else status pending and one more retry
retry(n) ==
  IF n.retryCount >= n.maxRetries THEN [threw |-> TRUE, n |-> n]
  ELSE [threw |-> FALSE, n |-> [n EXCEPT !.status = "pending", !.retryCount = @ + 1]]

\* NotificationService.sendNotification(notification, user): the channels in
\* turn; emailFails and smsFails stand for a send that throws
sendNotification(n, user, emailFails, smsFails) ==
  LET a == IF n.enabled["inApp"] THEN markChannelSent(n, "inApp") ELSE n
      b == IF a.enabled["email"] /\ user.email
           THEN IF emailFails THEN markChannelFailed(a, "email", "email failed")
                ELSE markChannelSent(a, "email")
           ELSE a
      c == IF b.enabled["sms"] /\ user.phone
           THEN IF smsFails THEN markChannelFailed(b, "sms", "sms failed")
                ELSE markChannelSent(b, "sms")
           ELSE b
  IN c

\* a notification is created
CreateNote(email, sms, maxRetries) ==
  /\ ~note.exists
  /\ note' = NewNote(email, sms, maxRetries)
  /\ UNCHANGED <<noteRest, noteCalls>>

\* one more call can be made on the document
CanCall == note.exists /\ noteCalls < MaxNoteCalls

\* notification.markChannelSent(channel)
MarkChannelSent(channel) ==
  /\ CanCall
  /\ note' = markChannelSent(note, channel)
  /\ noteCalls' = noteCalls + 1
  /\ UNCHANGED noteRest

\* notification.markChannelFailed(channel, error)
MarkChannelFailed(channel) ==
  /\ CanCall
  /\ note' = markChannelFailed(note, channel, "failed")
  /\ noteCalls' = noteCalls + 1
  /\ UNCHANGED noteRest

\* notification.retry()
Retry ==
  /\ CanCall
  /\ note' = retry(note).n
  /\ noteCalls' = noteCalls + 1
  /\ UNCHANGED noteRest

\* notificationService.sendNotification(notification, user)
SendNotification(user, emailFails, smsFails) ==
  /\ CanCall
  /\ note' = sendNotification(note, user, emailFails, smsFails)
  /\ noteCalls' = noteCalls + 1
  /\ UNCHANGED noteRest

----------------------------------------------------------------------------
(* Admin login: failed attempts and the lock *)

\* what a login request leaves alone besides the clock
loginRest == <<qrVars, queueVars, paused, certVars, repeatVars, sweepRun, adminReq, procRun,
               notifVars, analyticsVars, listRun, checkins, attendance, retryVars>>

\* an Admin document with the fields of AdminSchema the login reads; 0
\* stands for a lockUntil that is absent
NewAdmin == [status |-> "active", loginAttempts |-> 0, lockUntil |-> 0]

maxAttempts == 5
lockTime == 2 * 60 * 60 * 1000

\* virtual isLocked: !!(this.lockUntil && this.lockUntil > Date.now())
isLocked(a, t) == a.lockUntil # 0 /\ a.lockUntil > t

\* methods.incrementLoginAttempts() at time t
incrementLoginAttempts(a, t) ==
  IF a.lockUntil # 0 /\ a.lockUntil < t
  THEN [a EXCEPT !.loginAttempts = 1, !.lockUntil = 0]
  ELSE IF a.loginAttempts + 1 >= maxAttempts /\ ~isLocked(a, t)
  THEN [a EXCEPT !.loginAttempts = @ + 1, !.lockUntil = t + lockTime]
  ELSE [a EXCEPT !.loginAttempts = @ + 1]

\* methods.resetLoginAttempts()
resetLoginAttempts(a) == [a EXCEPT !.loginAttempts = 0, !.lockUntil = 0]

\* the body of adminLogin for a request at time t1 whose password comparison
\* ends at time t2: the answer and the document afterwards; found says the
\* email is the admin's, twoFactorCode is "" when the request has none
adminLogin(a, found, passwordValid, twoFactorCode, t1, t2) ==
  LET Answer(status, message, doc) == [status |-> status, message |-> message, admin |-> doc]
  IN IF ~found THEN Answer(401, "Invalid email or password", a)
     ELSE IF a.status # "active" THEN Answer(403, "Account is not active", a)
     ELSE IF isLocked(a, t1) THEN Answer(403, "Account is locked", a)
     ELSE IF ~passwordValid
     THEN Answer(401, "Invalid email or password", incrementLoginAttempts(a, t2))
     \* admin.twoFactorAuth.enabled: a path AdminSchema does not declare is
     \* undefined on the document, and reading a property of it throws
     ELSE IF "twoFactorAuth" \notin DOMAIN a THEN Answer(500, "TypeError", a)
     ELSE IF a.twoFactorAuth.enabled /\ twoFactorCode = ""
     THEN Answer(403, "Two-factor authentication code required", a)
     ELSE IF a.twoFactorAuth.enabled /\ twoFactorCode # a.twoFactorAuth.secret
     THEN Answer(401, "Invalid two-factor authentication code", a)
     ELSE Answer(200, "Login successful", resetLoginAttempts(a))

NoLoginRun == [seq |-> 0, found |-> FALSE, passwordValid |-> FALSE, at |-> 0, compared |-> FALSE,
               status |-> 0, message |-> ""]

\* POST /auth/admin/login; bcrypt.compare, when it is reached, takes d
\* milliseconds
AdminLogin(found, passwordValid, twoFactorCode, d) ==
  /\ loginRun.seq < MaxLogins
  /\ LET compared == found /\ admin.status = "active" /\ ~isLocked(admin, now)
         t2 == IF compared THEN now + d ELSE now
         out == adminLogin(admin, found, passwordValid, twoFactorCode, now, t2)
     IN /\ admin' = out.admin
        /\ now' = t2
        /\ loginRun' = [seq |-> loginRun.seq + 1, found |-> found, passwordValid |-> passwordValid,
                         at |-> now, compared |-> compared, status |-> out.status,
                         message |-> out.message]
  /\ UNCHANGED <<ticks, loginRest>>

\* updateAdmin: admin.status = status; admin.save()
UpdateAdmin(status) ==
  /\ admin.status # status
  /\ admin' = [admin EXCEPT !.status = status]
  /\ UNCHANGED <<clockVars, loginRest, loginRun>>

ExtInit ==
  /\ paused = [q \in Queues |-> FALSE]
  /\ certificates = [u \in Users |-> 0]
  /\ certRun = NoCertRun
  /\ repeat = <<>>
  /\ repeatDelayed = <<>>
  /\ setups = 0
  /\ sweepRun = NoSweepRun
  /\ adminReq = NoAdminReq
  /\ procRun = NoProcRun
  /\ notifications = <<>>
  /\ pendingRun = NoPendingRun
  /\ feedbacks = <<>>
  /\ analyticsRun = NoAnalyticsRun
  /\ listRun = NoListRun
  /\ checkins = <<>>
  /\ attendance = NoAttendance
  /\ note = NoNote
  /\ noteCalls = 0
  /\ admin = NewAdmin
  /\ loginRun = NoLoginRun

Init == QRInit /\ QueueInit /\ ExtInit

NextSign ==
  \/ \E x \in TextInputs(now) : \E sg \in SignatureInputs(x) : VerifySignatureOp(DText(x), sg)
  \/ \E d \in {DNumber, DEmpty} : VerifySignatureOp(d, JStr(Sig(NullText)))

SpecSign == Init /\ [][NextSign]_vars

NextQR ==
  \/ \E d \in TickSteps : Tick(d)
  \/ \E u \in Users, e \in Events : GenerateUserTicketQR(u, e)
  \/ \E c \in ContentInputs(now) \cup issued : VerifyQRCodeOp(c)

SpecQR == Init /\ [][NextQR]_vars

NextScan ==
  \/ \E d \in TickSteps : Tick(d)
  \/ \E u \in Users, e \in Events : GenerateUserTicketQR(u, e)
  \/ \E c \in ScanInputs(now) \cup issued, b \in BOOLEAN : ScanQRCode(c, b)

SpecScan == Init /\ [][NextScan]_vars

\* the job life cycle: enqueue helpers, workers and the admin retry / remove
NextQueue ==
  \/ \E q \in Queues, a \in OptionAttempts : Len(jobs) < MaxJobs /\ Enqueue(q, a)
  \/ \E j \in DOMAIN jobs : Claim(j)
  \/ \E j \in DOMAIN jobs : HandlerReturns(j)
  \/ \E j \in DOMAIN jobs : HandlerThrows(j)
  \/ \E j \in DOMAIN jobs : BackoffElapsed(j)
  \/ \E j \in DOMAIN jobs : Stalled(j)
  \/ \E j \in DOMAIN jobs : AdminRetry(j)
  \/ \E j \in DOMAIN jobs : AdminRemove(j)

SpecQueue == Init /\ [][NextQueue]_vars

InFlight == \E j \in DOMAIN jobs : Exists(j) /\ jobs[j].state \in {"waiting", "active", "delayed"}

\* a stream of jobs of one queue whose handler always throws, one job at a
\* time; the admin acts while the first jobs of the stream run
NextRetention ==
  \/ /\ Len(jobs) < removeOnFail + StreamExtra
     /\ ~InFlight
     /\ Enqueue(StreamQueue, 0)
  \/ \E j \in DOMAIN jobs : Claim(j)
  \/ \E j \in DOMAIN jobs : HandlerThrows(j)
  \/ \E j \in DOMAIN jobs : BackoffElapsed(j)
  \/ \E j \in DOMAIN jobs : Len(jobs) <= AdminWindow /\ AdminRetry(j)
  \/ \E j \in DOMAIN jobs : Len(jobs) <= AdminWindow /\ AdminRemove(j)
  \/ \E g \in GraceInputs : Len(jobs) <= AdminWindow /\ CleanAllQueues(g)

SpecRetention == Init /\ [][NextRetention]_vars

\* the queues paused and resumed one by one through the admin API
PauseQueues == {"analytics", "scheduled"}

\* jobs of two queues worked while an admin pauses and resumes queues
NextPause ==
  \/ \E q \in PauseQueues : Len(jobs) < MaxJobs /\ Enqueue(q, 0)
  \/ \E j \in DOMAIN jobs : Claim(j)
  \/ \E j \in DOMAIN jobs : HandlerReturns(j)
  \/ \E j \in DOMAIN jobs : HandlerThrows(j)
  \/ \E j \in DOMAIN jobs : BackoffElapsed(j)
  \/ \E j \in DOMAIN jobs : Stalled(j)
  \/ \E q \in PauseQueues : PauseQueue(q)
  \/ \E q \in PauseQueues : ResumeQueue(q)
  \/ pauseAllQueues
  \/ resumeAllQueues

SpecPause == Init /\ [][NextPause]_vars

\* job.data.data of the certificate jobs enqueued
CertificateData == {[userId |-> "u1", eventId |-> "e1"]}

\* certificate jobs enqueued, worked, redelivered after a stall and retried
NextCert ==
  \/ \E t \in CERTIFICATE_JOB_TYPES, dt \in CertificateData :
       Len(jobs) < MaxJobs /\ QueueCertificate(t, dt, NoOptions)
  \/ \E j \in DOMAIN jobs : Claim(j)
  \/ \E j \in DOMAIN jobs : \E failing \in SUBSET Users : ProcessCertificate(j, failing)
  \/ \E j \in DOMAIN jobs : BackoffElapsed(j)
  \/ \E j \in DOMAIN jobs : Stalled(j)

SpecCert == Init /\ [][NextCert]_vars

\* server starts over time, with the repeatable jobs coming due in between
NextRepeat ==
  \/ SetupRecurringJobs
  \/ \E d \in TickSteps : Tick(d)
  \/ \E i \in DOMAIN repeatDelayed : Len(jobs) < MaxJobs /\ RepeatDue(i)
  \/ \E j \in DOMAIN jobs : Claim(j)
  \/ \E j \in DOMAIN jobs : HandlerReturns(j)

SpecRepeat == Init /\ [][NextRepeat]_vars

\* the job types handed to the scheduled queue
ScheduledTypeInputs == SCHEDULED_JOB_TYPES \cup {"unknown"}

\* sweeps scheduled and run, with the jobs they fan out worked in turn
NextSweep ==
  \/ \E t \in ScheduledTypeInputs : Len(jobs) < MaxJobs /\ ScheduleJob(t)
  \/ \E j \in DOMAIN jobs : Claim(j)
  \/ \E j \in DOMAIN jobs : \E fails \in BOOLEAN : ProcessScheduled(j, fails)
  \/ \E j \in DOMAIN jobs : jobs[j].queue # "scheduled" /\ HandlerReturns(j)
  \/ \E j \in DOMAIN jobs : jobs[j].queue # "scheduled" /\ HandlerThrows(j)
  \/ \E j \in DOMAIN jobs : BackoffElapsed(j)
  \/ \E j \in DOMAIN jobs : Stalled(j)

SpecSweep == Init /\ [][NextSweep]_vars

\* the steps of the clock while certificate handlers run
ElapseSteps == {60000, 300000}

\* certificate jobs whose handlers finish in time or run into the timeout
NextTimeout ==
  \/ \E t \in {"generate_single", "regenerate"}, dt \in CertificateData :
       Len(jobs) < MaxJobs /\ QueueCertificate(t, dt, NoOptions)
  \/ \E dt \in CertificateData : Len(jobs) < MaxJobs /\ QueueBulkCertificates(dt, NoOptions)
  \/ \E j \in DOMAIN jobs : Claim(j)
  \/ \E j \in DOMAIN jobs : ProcessCertificate(j, {})
  \/ \E j \in DOMAIN jobs : TimedOut(j)
  \/ \E j \in DOMAIN jobs : BackoffElapsed(j)
  \/ \E d \in ElapseSteps : Elapse(d)

SpecTimeout == Init /\ [][NextTimeout]_vars

\* the job types handed to the processor of queue q
TypeInputs(q) == JOB_TYPES(q) \cup {"unknown"}

\* jobs of every type, known and unknown, worked by the six processors whose
\* service calls succeed or fail
NextProcess ==
  \/ \E q \in ServiceQueues : \E t \in TypeInputs(q) :
       Len(jobs) < MaxJobs /\ QueueJob(q, t, NoOptions)
  \/ \E t \in TypeInputs("certificate"), dt \in CertificateData :
       Len(jobs) < MaxJobs /\ QueueCertificate(t, dt, NoOptions)
  \/ \E t \in TypeInputs("scheduled") : Len(jobs) < MaxJobs /\ ScheduleJob(t)
  \/ \E j \in DOMAIN jobs : Claim(j)
  \/ \E j \in DOMAIN jobs : \E fails \in BOOLEAN : ProcessJob(j, fails)
  \/ \E j \in DOMAIN jobs : \E failing \in {{}, {"u1"}} : ProcessCertificate(j, failing)
  \/ \E j \in DOMAIN jobs : \E fails \in BOOLEAN : ProcessScheduled(j, fails)
  \/ \E j \in DOMAIN jobs : BackoffElapsed(j)

SpecProcess == Init /\ [][NextProcess]_vars

\* the options handed to the enqueue helpers
OptionInputs == {Options(a, t) : a \in {0, 1}, t \in {0, 120000}}

\* jobs enqueued with and without options through every helper and worked
\* by handlers that throw
NextOptions ==
  \/ \E q \in ServiceQueues \cup {"scheduled"}, o \in OptionInputs :
       Len(jobs) < MaxJobs /\ QueueJob(q, "custom", o)
  \/ \E t \in {"generate_single", "regenerate"}, dt \in CertificateData, o \in OptionInputs :
       Len(jobs) < MaxJobs /\ QueueCertificate(t, dt, o)
  \/ \E dt \in CertificateData, o \in OptionInputs :
       Len(jobs) < MaxJobs /\ QueueBulkCertificates(dt, o)
  \/ \E j \in DOMAIN jobs : Claim(j)
  \/ \E j \in DOMAIN jobs : HandlerThrows(j)
  \/ \E j \in DOMAIN jobs : BackoffElapsed(j)

SpecOptions == Init /\ [][NextOptions]_vars

\* the clock steps between notifications and sweeps
NotifySteps == {Hour, 2 * Hour}

\* the scheduledFor and expiresAt given to a notification created at time t
ScheduledForInputs(t) == {0, t, t + Hour}
ExpiresAtInputs(t) == {0, t + 2 * Hour}

\* notifications created over time and the pending ones fetched
NextNotify ==
  \/ \E st \in {"pending", "sent"}, sf \in ScheduledForInputs(now), ex \in ExpiresAtInputs(now) :
       CreateNotification(st, sf, ex)
  \/ \E d \in NotifySteps : Tick(d)
  \/ GetPendingNotifications

SpecNotify == Init /\ [][NextNotify]_vars

\* job.data.data of the analytics jobs enqueued
AnalyticsData == {[userId |-> "u1", eventId |-> "e1"], NoData}

\* analytics jobs of every type worked while users check in and feedback arrives
NextAnalytics ==
  \/ \E t \in TypeInputs("analytics"), dt \in AnalyticsData :
       Len(jobs) < MaxJobs /\ QueueAnalytics(t, dt)
  \/ \E j \in DOMAIN jobs : Claim(j)
  \/ \E j \in DOMAIN jobs : \E fails \in BOOLEAN : ProcessAnalytics(j, fails)
  \/ \E e \in Events : GenerateUserTicketQR("u1", e)
  \/ \E c \in issued : ScanQRCode(c, TRUE)
  \/ \E e \in Events : CreateFeedback("u1", e, 5)

SpecAnalytics == Init /\ [][NextAnalytics]_vars

\* the clock steps between job ends and a clean: just over the default grace
CleanSteps == {3600001}

\* the grace the queues are cleaned with: the default of one hour
CleanGraces == {3600000}

\* jobs of one queue that complete or fail at different times, and the
\* queues cleaned with the default grace
NextClean ==
  \/ Len(jobs) < MaxCleanJobs /\ Enqueue(StreamQueue, 0)
  \/ \E j \in DOMAIN jobs : Claim(j)
  \/ \E j \in DOMAIN jobs : HandlerReturns(j)
  \/ \E j \in DOMAIN jobs : HandlerThrows(j)
  \/ \E j \in DOMAIN jobs : BackoffElapsed(j)
  \/ \E d \in CleanSteps : Elapse(d)
  \/ \E g \in CleanGraces : CleanAllQueues(g)

SpecClean == Init /\ [][NextClean]_vars

\* the status and limit of the listing requests
StatusInputs == {"waiting", "active", "completed", "failed", "delayed", "paused"}
LimitInputs == {<<>>, <<1>>}

\* jobs of one queue worked while an admin lists them by status
NextList ==
  \/ Len(jobs) < MaxListJobs /\ Enqueue(StreamQueue, 0)
  \/ \E j \in DOMAIN jobs : Claim(j)
  \/ \E j \in DOMAIN jobs : HandlerReturns(j)
  \/ \E j \in DOMAIN jobs : HandlerThrows(j)
  \/ \E st \in StatusInputs, l \in LimitInputs : GetQueueJobs(StreamQueue, st, l)

SpecList == Init /\ [][NextList]_vars

\* the quarter hour between two instances of the recurring sweeps
SweepPeriod == 15 * Minute

\* the 24h sweeps the scheduled queue holds or has run
Sweeps24h ==
  {j \in DOMAIN jobs : jobs[j].queue = "scheduled" /\ jobs[j].type = "event_reminder_24h"}

\* the server starts and registers the recurring jobs; every quarter hour the instance
\* of the 24h sweep becomes due and a worker runs it (a run takes far less
\* than the quarter hour between two instances)
NextReminders ==
  \/ setups = 0 /\ SetupRecurringJobs
  \/ \E i \in DOMAIN repeatDelayed :
       /\ repeatDelayed[i].type = "event_reminder_24h"
       /\ Cardinality(Sweeps24h) < MaxSweeps
       /\ RepeatDue(i)
  \/ \E j \in DOMAIN jobs : jobs[j].queue = "scheduled" /\ Claim(j)
  \/ \E j \in DOMAIN jobs : \E fails \in BOOLEAN : ProcessScheduled(j, fails)
  \/ \E j \in DOMAIN jobs : jobs[j].queue = "scheduled" /\ BackoffElapsed(j)
  \/ (\A j \in DOMAIN jobs : jobs[j].state # "active") /\ Elapse(SweepPeriod)

SpecReminders == Init /\ [][NextReminders]_vars

\* a ticket is issued; scans of it and manual check-ins are served, the
\* database calls of one request interleaved with those of another
NextCheckin ==
  \/ \E e \in Events : GenerateUserTicketQR("u1", e)
  \/ \E c \in issued : StartScan(c)
  \/ \E u \in Users, e \in Events : StartManual(u, e)
  \/ \E r \in DOMAIN checkins : FindUser(r)
  \/ \E r \in DOMAIN checkins : FindEvent(r)
  \/ \E r \in DOMAIN checkins : SaveUser(r)
  \/ \E r \in DOMAIN checkins : SaveEvent(r)

SpecCheckin == Init /\ [][NextCheckin]_vars

\* the user and event ids of attendance requests, one of each unknown
AttendanceUsers == Users \cup {"u9"}
AttendanceEvents == Events \cup {"e9"}
BulkInputs == {<<>>, <<"u1">>, <<"u1", "u1">>, <<"u1", "u2">>, <<"u9", "u2">>}

\* users register, tickets are issued and scanned, and the desk checks users
\* in by hand, in bulk, and undoes check-ins; each request ends before the
\* next begins
NextAttendance ==
  \/ \E u \in Users, e \in Events : RegisterForEvent(u, e)
  \/ \E u \in Users, e \in Events : GenerateUserTicketQR(u, e)
  \/ \E c \in issued : ScanQRCode(c, TRUE)
  \/ \E u \in AttendanceUsers, e \in AttendanceEvents : ManualCheckIn(u, e)
  \/ \E ids \in BulkInputs, e \in AttendanceEvents : BulkCheckIn(ids, e)
  \/ \E u \in AttendanceUsers, e \in AttendanceEvents : UndoCheckIn(u, e)

SpecAttendance == Init /\ [][NextAttendance]_vars

\* the channels named in calls, one of them unknown; the maxRetries of a
\* notification (3 is the default); the users a notification is sent to
ChannelInputs == Channels \cup {"fax"}
MaxRetriesInputs == {1, 3}
UserInputs == {[email |-> TRUE, phone |-> TRUE], [email |-> TRUE, phone |-> FALSE]}

\* a notification is created, sent, marked and retried
NextRetry ==
  \/ \E email, sms \in BOOLEAN, m \in MaxRetriesInputs : CreateNote(email, sms, m)
  \/ \E ch \in ChannelInputs : MarkChannelSent(ch)
  \/ \E ch \in ChannelInputs : MarkChannelFailed(ch)
  \/ Retry
  \/ \E user \in UserInputs, emailFails, smsFails \in BOOLEAN :
       SendNotification(user, emailFails, smsFails)

SpecRetry == Init /\ [][NextRetry]_vars

\* the time a password comparison takes; the waits between requests
CompareSteps == {80}
LoginSteps == {lockTime}
AdminStatusInputs == {"active", "suspended"}

\* login requests with the admin's email or another and a right or wrong
\* password, with time passing between them; the account is suspended and
\* activated again
NextLogin ==
  \/ \E found, passwordValid \in BOOLEAN, d \in CompareSteps :
       AdminLogin(found, passwordValid, "", d)
  \/ \E status \in AdminStatusInputs : UpdateAdmin(status)
  \/ \E d \in LoginSteps : Elapse(d)

SpecLogin == Init /\ [][NextLogin]_vars

\* requests to the queue admin router while the jobs of one queue are worked
NextAdmin ==
  \/ Len(jobs) < MaxJobs /\ Enqueue(StreamQueue, 0)
  \/ \E j \in DOMAIN jobs : Claim(j)
  \/ \E j \in DOMAIN jobs : HandlerThrows(j)
  \/ \E j \in DOMAIN jobs : BackoffElapsed(j)
  \/ \E route \in JobRoutes, cred \in Credentials, j \in DOMAIN jobs :
       QueueRequest(route, cred, j, StreamQueue, 0)
  \/ \E route \in QueueRoutes \ JobRoutes, cred \in Credentials :
       QueueRequest(route, cred, 0, StreamQueue, 0)

SpecAdmin == Init /\ [][NextAdmin]_vars

----------------------------------------------------------------------------
(* Properties of the signing primitive (SpecSign) *)

SignedData == sigCheck.data.t \in {"text", "empty"}
ExpectedOfCheck == JStr(generateSignature(sigCheck.data).value)

\* C1: verifySignature(P, generateSignature(P)) returns true for every
\* payload string P.
C1_SignThenVerify ==
  (sigCheck.called /\ SignedData /\ sigCheck.signature = ExpectedOfCheck)
    => (~sigCheck.threw /\ sigCheck.value = TRUE)

C1_Witness ==
  /\ sigCheck.called
  /\ sigCheck.data.t = "text" /\ sigCheck.data.text.k = "envelope"
  /\ sigCheck.signature = ExpectedOfCheck
  /\ sigCheck.value = TRUE

\* C2 as stated: for every signature value S that differs from
\* generateSignature(P), verifySignature(P, S) returns false and never throws.
C2_Original ==
  (sigCheck.called /\ SignedData /\ sigCheck.signature # ExpectedOfCheck)
    => (~sigCheck.threw /\ sigCheck.value = FALSE)

\* the bytes Buffer.from makes of the signature are those of the expected one
SameBytes ==
  /\ ~BufferFrom(sigCheck.signature).threw
  /\ BufferFrom(sigCheck.signature).bytes = BufferFrom(ExpectedOfCheck).bytes

\* C2 amended: for every signature value S that is a string different from
\* generateSignature(P), or any value whose bytes differ from the bytes of
\* generateSignature(P) or that Buffer.from rejects, verifySignature(P, S)
\* returns false and never throws.
C2_RejectsOtherSignature ==
  (sigCheck.called /\ SignedData
     /\ (\/ sigCheck.signature.t = "string" /\ sigCheck.signature # ExpectedOfCheck
         \/ ~SameBytes))
    => (~sigCheck.threw /\ sigCheck.value = FALSE)

C2_Witness ==
  /\ sigCheck.called /\ SignedData
  /\ sigCheck.signature.t = "string"
  /\ Len(sigCheck.signature.s) # DigestLen
  /\ sigCheck.signature.s # <<>>
  /\ sigCheck.value = FALSE /\ ~sigCheck.threw

----------------------------------------------------------------------------
(* Properties of verifyQRCode (SpecQR) *)

CheckedText == qrCheck.content.data.text
CorrectlySigned ==
  /\ qrCheck.content.k = "object"
  /\ qrCheck.content.data.t = "text"
  /\ qrCheck.content.signature = JStr(Sig(CheckedText))
OlderThanMaxAge ==
  /\ CheckedText.k = "envelope" /\ CheckedText.tsKind = "number"
  /\ qrCheck.at - CheckedText.ts > maxAge

C4_ValidOnlyIfSignedAndFresh ==
  (qrCheck.called /\ qrCheck.r.valid)
    => /\ CorrectlySigned
       /\ CheckedText.k = "envelope" /\ CheckedText.tsKind = "number"
       /\ qrCheck.at - CheckedText.ts <= maxAge

InvalidInput ==
  \/ qrCheck.content.k \in {"garbage", "null"}
  \/ qrCheck.content.data.t \in {"undefined", "empty"}
  \/ Falsy(qrCheck.content.signature)
  \/ qrCheck.content.data.t = "number"
  \/ qrCheck.content.signature.t = "string" /\ ~CorrectlySigned
  \/ CorrectlySigned /\ CheckedText.k = "garbage"
  \/ CorrectlySigned /\ OlderThanMaxAge

\* C5: verifyQRCode never throws; it returns {valid: false, error} for
\* unparseable outer JSON, a missing data or signature field, a wrong
\* signature, an unparseable inner payload and an expired timestamp, and
\* {valid: true, data} otherwise.
C5_NeverThrows ==
  qrCheck.called =>
    /\ ~qrCheck.r.threw
    /\ qrCheck.r.valid => qrCheck.r.error = "" /\ qrCheck.r.data = CheckedText
    /\ ~qrCheck.r.valid => qrCheck.r.error \in {MsgFormat, MsgSignature, MsgExpired, MsgFailed}
    /\ InvalidInput => ~qrCheck.r.valid

\* a correctly signed text that is not JSON
C5_Witness ==
  /\ qrCheck.called /\ CorrectlySigned /\ CheckedText.k = "garbage"
  /\ ~qrCheck.r.valid /\ qrCheck.r.error = MsgFailed

----------------------------------------------------------------------------
(* Properties of the scan endpoint (SpecScan) *)

\* C6: when verifyQRCode rejects the content, the endpoint answers 4xx with
\* the verifier's reason as message, and no attendance state changes.
C6_RejectionReasonReported ==
  (scan.called /\ scan.verified /\ ~scan.verification.valid)
    => /\ scan.res.status \in 400..499
       /\ scan.res.message = scan.verification.error
       /\ ~scan.changed

----------------------------------------------------------------------------
(* Properties of the job life cycle (SpecQueue) *)

\* the maximum attempts the queues are documented with
ClaimedAttempts(q) ==
  CASE q = "email" -> 5 [] q = "sms" -> 3 [] q = "notification" -> 3
    [] q = "certificate" -> 3 [] q = "analytics" -> 2 [] q = "scheduled" -> 2

\* C7: with N the maximum attempts of its queue, a job enqueued without
\* options whose handler throws N - 1 times and then returns ends completed,
\* and one whose handler always throws ends failed after exactly N attempts.
C7_ExactlyNAttempts ==
  \A j \in DOMAIN jobs :
    LET J == jobs[j]
        N == ClaimedAttempts(J.queue)
    IN (J.options = 0 /\ J.retries = 0) =>
         /\ J.attemptsMade <= N
         /\ (J.state = "failed" /\ J.failedReason = "error")
              => (J.attemptsMade = N /\ J.lastOutcome = "threw")
         /\ J.state # "failed" => J.attemptsMade < N
         /\ (J.state = "failed" /\ J.stalledCounter = 0) => J.runs = N
         /\ J.lastOutcome = "returned" <=> J.state = "completed"
         /\ (J.state = "completed" /\ J.stalledCounter = 0) => J.runs = J.attemptsMade + 1

\* an email job that threw four times and returned on its fifth attempt
C7_Witness ==
  \E j \in DOMAIN jobs :
    /\ jobs[j].queue = "email" /\ jobs[j].options = 0 /\ jobs[j].retries = 0
    /\ jobs[j].state = "completed" /\ jobs[j].attemptsMade = 4 /\ jobs[j].runs = 5

QueueEdges ==
  {<<"waiting", "active">>, <<"active", "completed">>, <<"active", "failed">>,
   <<"active", "delayed">>, <<"delayed", "waiting">>, <<"active", "waiting">>}

\* C8: the queue moves a job only along waiting -> active -> completed or
\* failed, a throw with attempts remaining sending it back through the backoff
\* delay; a stalled active job is requeued at most 2 times and the next stall
\* moves it to failed.
C8_LifeCycle ==
  [][\A j \in DOMAIN jobs :
       LET a == jobs[j]
           b == jobs'[j]
       IN /\ (a.state # b.state /\ a.retries = b.retries /\ b.state # "removed")
               => <<a.state, b.state>> \in QueueEdges
          /\ (a.state = "active" /\ b.state = "delayed") => b.attemptsMade < b.attempts
          /\ (a.state = "active" /\ b.state = "waiting")
               => (b.stalledCounter = a.stalledCounter + 1 /\ b.stalledCounter <= 2)
          /\ (b.stalledCounter > a.stalledCounter /\ a.stalledCounter >= 2)
               => b.state = "failed"]_vars

\* a job failed by its third stall
C8_Witness ==
  \E j \in DOMAIN jobs :
    /\ jobs[j].state = "failed" /\ jobs[j].retries = 0
    /\ jobs[j].stalledCounter = 3
    /\ jobs[j].failedReason = "job stalled more than allowable limit"

\* C10: a job is waiting (or active) when its enqueue helper returns, its
\* handler has not run then, and no job is completed before a worker has run
\* its handler.
C10_EnqueueNonBlocking ==
  [][/\ \A j \in DOMAIN jobs' \ DOMAIN jobs :
          jobs'[j].state \in {"waiting", "active"} /\ jobs'[j].runs = 0
     /\ \A j \in DOMAIN jobs' :
          jobs'[j].state = "completed"
            => (jobs'[j].runs >= 1 /\ jobs'[j].lastOutcome = "returned")]_vars

\* a job just enqueued
C10_Witness ==
  \E j \in DOMAIN jobs :
    jobs[j].state = "waiting" /\ jobs[j].runs = 0 /\ jobs[j].removedBy = "none"

----------------------------------------------------------------------------
(* Properties of the retention of failed jobs (SpecRetention) *)

\* C9 as stated: a failed job stays retrievable until an admin retries,
\* removes or cleans it; the queue never drops it on its own.
C9_Original ==
  \A j \in DOMAIN jobs :
    jobs[j].state = "failed" => jobs[j].removedBy = "none"

\* C9 amended: a job whose attempts are exhausted moves to failed and stays
\* retrievable until an admin retries, removes or cleans it, or until 200
\* later jobs of its queue have failed: the queue keeps the newest 200 failed
\* jobs (removeOnFail) and drops the older ones on its own.
C9_RetainedUpTo200 ==
  /\ \A j \in DOMAIN jobs :
       LET J == jobs[j]
       IN /\ (J.retries = 0 /\ J.attemptsMade >= J.attempts) => J.state = "failed"
          /\ J.state = "failed" =>
               /\ J.removedBy \in {"none", "removeOnFail"}
               /\ J.removedBy = "removeOnFail" => failedCount[J.queue] - J.failSeq >= 200
  /\ \A q \in Queues :
       /\ \A i \in 1..Len(failedSet[q]) :
            LET J == jobs[failedSet[q][i]]
            IN J.state = "failed" /\ J.removedBy = "none" /\ J.queue = q
       /\ Cardinality({j \in DOMAIN jobs : /\ jobs[j].state = "failed"
                                           /\ jobs[j].removedBy = "none"
                                           /\ jobs[j].queue = q})
            = Len(failedSet[q])

\* a failed job still retrievable after 199 later jobs of its queue failed
C9_Witness ==
  \E q \in Queues : \E i \in 1..Len(failedSet[q]) :
    LET J == jobs[failedSet[q][i]]
    IN /\ J.state = "failed" /\ J.removedBy = "none"
       /\ failedCount[q] - J.failSeq >= 199

----------------------------------------------------------------------------
(* Pause and resume (SpecPause) *)

\* C11: while a queue is paused no job of it moves from waiting to active
\* (nor from any other state to active); a job that is waiting in a paused
\* queue, enqueued during the pause or before it, is still waiting after every
\* step; and a waiting job of a queue that is not paused (never paused, or
\* resumed) can be taken by a worker.
C11_PausedHoldsWaiting ==
  /\ [][\A j \in DOMAIN jobs :
         paused[jobs[j].queue] =>
           /\ (jobs[j].state # "active" => jobs'[j].state # "active")
           /\ (jobs[j].state = "waiting" => jobs'[j].state = "waiting")]_vars
  /\ [](\A j \in DOMAIN jobs :
         (jobs[j].state = "waiting" /\ ~paused[jobs[j].queue]) => ENABLED Claim(j))

\* a job enqueued during a pause runs after the resume
C11_Witness ==
  \E j \in DOMAIN jobs :
    /\ jobs[j].addedPaused
    /\ ~paused[jobs[j].queue]
    /\ jobs[j].state = "active"

----------------------------------------------------------------------------
(* Certificate jobs (SpecCert) *)

\* the attendees of the last bulk run whose generation did not throw
BulkOthers == EventDoc("e1").attendedUsers \ certRun.failing

\* C12: in a bulk certificate job where generation throws for one attendee,
\* that attendee is recorded as failed, every other attendee is processed
\* (generated, or skipped as already present), and the handler returns
\* without throwing.
C12_BulkToleratesFailure ==
  (/\ certRun.called /\ certRun.type = "generate_bulk"
   /\ Cardinality(certRun.failing) = 1
   /\ \A u \in certRun.failing : certRun.before[u] = 0)
    => /\ certRun.results.errors = certRun.failing
       /\ certRun.results.generated + certRun.results.skipped = Cardinality(BulkOthers)
       /\ ~certRun.threw

\* the certificate-ready jobs enqueued on queue q for user u
ReadyJobs(q, u) ==
  {j \in DOMAIN jobs : /\ jobs[j].queue = q /\ jobs[j].type = "certificate_ready"
                       /\ jobs[j].data.userId = u}

----------------------------------------------------------------------------
(* Recurring jobs (SpecRepeat) *)

IdempotencyKeys ==
  {"event-reminder-24h", "event-reminder-1h", "feedback-request", "cleanup-notifications",
   "daily-analytics", "weekly-analytics", "monthly-analytics"}

\* the entries of the registry of repeatable jobs registered under jobId k
Standing(k) == {i \in DOMAIN repeat : repeat[i].key[2] = k}

\* C14: once setupRecurringJobs has run, however often, the registry of
\* repeatable jobs holds exactly one entry for each of the seven idempotency
\* keys, and no delayed instance of a key is held twice for the same time.
C14_OneSchedulePerKey ==
  /\ setups >= 1 => \A k \in IdempotencyKeys : Cardinality(Standing(k)) = 1
  /\ \A a, b \in DOMAIN repeatDelayed :
       (repeatDelayed[a].key = repeatDelayed[b].key
          /\ repeatDelayed[a].millis = repeatDelayed[b].millis) => a = b

\* setupRecurringJobs has run twice
C14_Witness ==
  /\ setups >= 2
  /\ Len(repeat) = 7

----------------------------------------------------------------------------
(* Sweeps of the scheduled queue (SpecSweep) *)

\* the reminder jobs of the last sweep on queue q for user u and event e
Reminders(q, u, e) ==
  {i \in DOMAIN sweepRun.chain :
     /\ sweepRun.chain[i].queue = q /\ sweepRun.chain[i].type = "event_reminder"
     /\ sweepRun.chain[i].data = [userId |-> u, eventId |-> e]}

\* user u holds a registration for event e that is not cancelled
RegisteredFor(u, e) ==
  \E i \in DOMAIN UserDocs[u].registeredEvents :
    /\ UserDocs[u].registeredEvents[i].eventId = e
    /\ UserDocs[u].registeredEvents[i].status # "cancelled"

\* event e is published and starts in the hour that begins 24 h after t
InWindow24h(e, t) ==
  /\ EventDocs[e].status = "published"
  /\ EventDocs[e].startDateTime >= t + 24 * Hour
  /\ EventDocs[e].startDateTime < t + 25 * Hour

\* C15: a 24h-reminder sweep run at time T enqueues exactly one email and one
\* notification reminder job for every user registered (not cancelled) for a
\* published event starting in the 24h window, and none for a cancelled
\* registration or for an event outside the window.
C15_OneReminderPairPerUser ==
  (sweepRun.called /\ sweepRun.type = "event_reminder_24h" /\ ~sweepRun.threw) =>
    \A u \in Users, e \in DOMAIN EventDocs :
      LET n == IF RegisteredFor(u, e) /\ InWindow24h(e, sweepRun.at) THEN 1 ELSE 0
      IN /\ Cardinality(Reminders("email", u, e)) = n
         /\ Cardinality(Reminders("notification", u, e)) = n

----------------------------------------------------------------------------
(* The queue admin router (SpecAdmin) *)

\* the request carries a valid access token of an existing active account
\* with the role admin
AdminCredentials(cred) ==
  cred.token = "valid" /\ cred.account = "active" /\ cred.role = "admin"

\* C16: a handler of the queue admin router runs only for a request with a
\* valid access token of an existing account with status active and role
\* admin; every other request is answered 401 or 403 and the step of such a
\* request leaves every queue as it was.
C16_AdminOnly ==
  /\ [](adminReq.called =>
          /\ adminReq.ran => AdminCredentials(adminReq.cred)
          /\ ~AdminCredentials(adminReq.cred) =>
                (~adminReq.ran /\ adminReq.status \in {401, 403}))
  /\ [][(adminReq' # adminReq /\ ~AdminCredentials(adminReq'.cred))
          => UNCHANGED <<queueVars, paused>>]_vars

\* an admin's pause request went through, and a request of a suspended
\* account was refused
C16_Witness ==
  /\ adminReq.called /\ ~adminReq.ran /\ adminReq.status = 403
  /\ adminReq.cred.token = "valid" /\ adminReq.cred.role = "admin"
  /\ adminReq.cred.account = "suspended"
  /\ paused[StreamQueue]

----------------------------------------------------------------------------
(* Certificate timeouts (SpecTimeout) *)

\* the timeout of a certificate job by the way it was enqueued
CertificateTimeout(J) == IF J.helper = "queueBulkCertificates" THEN 300000 ELSE 60000

\* C17: a certificate job carries a timeout of 60 s (single, regenerate) or
\* 300 s (bulk); a running job is never past its timeout; an attempt ended by
\* the timeout counts as a failed attempt, is retried after the backoff while
\* attempts remain and fails the job at the attempt limit, never completing it.
C17_TimeoutFailsJob ==
  /\ [](\A j \in DOMAIN jobs :
          LET J == jobs[j]
          IN J.queue = "certificate" =>
               /\ J.timeout = CertificateTimeout(J)
               /\ J.state = "active" => now - J.processedOn <= J.timeout
               /\ J.timeouts <= J.attemptsMade /\ J.attemptsMade <= J.attempts
               /\ J.attemptsMade = J.attempts => J.state = "failed")
  /\ [][\A j \in DOMAIN jobs :
          jobs'[j].timeouts # jobs[j].timeouts =>
            /\ jobs[j].state = "active"
            /\ now - jobs[j].processedOn >= jobs[j].timeout
            /\ jobs'[j].attemptsMade = jobs[j].attemptsMade + 1
            /\ jobs'[j].state = IF jobs'[j].attemptsMade < jobs[j].attempts
                                 THEN "delayed" ELSE "failed"]_vars

\* a bulk job whose three attempts all ran into the 300 s timeout
C17_Witness ==
  \E j \in DOMAIN jobs :
    /\ jobs[j].helper = "queueBulkCertificates"
    /\ jobs[j].timeouts = 3
    /\ jobs[j].state = "failed" /\ jobs[j].failedReason = "timeout"

----------------------------------------------------------------------------
(* Error propagation of the processors (SpecProcess) *)

\* the run that ended the attempt of job j in this step was given a job type
\* its processor has no case for, or a failing service call
FailedRun(j) ==
  LET J == jobs[j]
  IN \/ /\ J.queue \in ServiceQueues /\ procRun'.called /\ procRun'.job = j
        /\ (procRun'.fails \/ J.type \notin JOB_TYPES(J.queue))
     \/ /\ J.queue = "certificate" /\ certRun'.called /\ certRun'.job = j
        /\ \/ J.type \notin CERTIFICATE_JOB_TYPES
           \/ J.type \in {"generate_single", "regenerate"} /\ J.data.userId \in certRun'.failing
     \/ /\ J.queue = "scheduled" /\ sweepRun'.called /\ sweepRun'.job = j
        /\ (sweepRun'.fails \/ J.type \notin SCHEDULED_JOB_TYPES)

\* C18: when a processor is given a job of a type it has no case for, or a
\* call inside it fails, the attempt is recorded as failed (the attempt is
\* counted, the outcome is a throw, the job is delayed for a retry or failed)
\* and the job is not completed by that attempt.
C18_ErrorsPropagate ==
  [][\A j \in DOMAIN jobs :
       (jobs[j].state = "active" /\ jobs'[j] # jobs[j] /\ FailedRun(j)) =>
         /\ jobs'[j].state \in {"delayed", "failed"}
         /\ jobs'[j].attemptsMade = jobs[j].attemptsMade + 1
         /\ jobs'[j].lastOutcome = "threw"
         /\ \A i \in DOMAIN completedSet'[jobs[j].queue] : completedSet'[jobs[j].queue][i] # j]_vars

\* an email job of an unknown type whose five attempts were all recorded as failed
C18_Witness ==
  \E j \in DOMAIN jobs :
    /\ jobs[j].queue = "email" /\ jobs[j].type \notin EMAIL_JOB_TYPES
    /\ procRun.called /\ procRun.job = j
    /\ jobs[j].state = "failed" /\ jobs[j].attemptsMade = 5

----------------------------------------------------------------------------
(* Per-job options of the enqueue helpers (SpecOptions) *)

\* C19: a job enqueued with an attempts or timeout option has that value as
\* its own, through every helper including queueBulkCertificates; without a
\* timeout option a bulk certificate job has 300 s and any other certificate
\* job 60 s; without an option the job has its queue's default.
C19_OptionsOverride ==
  \A j \in DOMAIN jobs :
    LET J == jobs[j]
    IN J.helper # "none" =>
         /\ J.options # 0 => J.attempts = J.options
         /\ J.timeoutOption # 0 => J.timeout = J.timeoutOption
         /\ J.options = 0 => J.attempts = queueAttempts(J.queue)
         /\ J.timeoutOption = 0 =>
              J.timeout = CASE J.helper = "queueBulkCertificates" -> 300000
                            [] J.helper = "queueCertificate" -> 60000
                            [] OTHER -> queueTimeout(J.queue)

----------------------------------------------------------------------------
(* Pending notifications (SpecNotify) *)

\* the documents returned by the last call of getPendingNotifications
Returned == {pendingRun.result[k] : k \in DOMAIN pendingRun.result}

\* C20: getPendingNotifications returns exactly the notifications that are
\* pending, unscheduled or due (scheduledFor absent or <= now) and unexpired
\* (expiresAt absent or > now); every notification returned satisfies
\* shouldSendNow, so none scheduled for the future is returned.
C20_PendingAreDueAndUnexpired ==
  pendingRun.called =>
    \A i \in DOMAIN pendingRun.docs :
      LET n == pendingRun.docs[i]
          t == pendingRun.at
      IN /\ i \in Returned <=>
              /\ n.status = "pending"
              /\ (n.scheduledFor = 0 \/ n.scheduledFor <= t)
              /\ (n.expiresAt = 0 \/ n.expiresAt > t)
         /\ i \in Returned => shouldSendNow(n, t)

----------------------------------------------------------------------------
(* Analytics jobs (SpecAnalytics) *)

\* C21: a run of the analytics processor, whatever the job type and whether
\* it returns or throws, leaves every user, event, certificate and feedback
\* record as it was and adds no job to any queue.
C21_AnalyticsReadOnly ==
  [][analyticsRun' # analyticsRun =>
       /\ registeredEvents' = registeredEvents
       /\ attendedCount' = attendedCount
       /\ certificates' = certificates
       /\ feedbacks' = feedbacks
       /\ Len(jobs') = Len(jobs)]_vars

\* an event_stats job that returned the attendance of an event with a
\* checked-in user
C21_Witness ==
  /\ analyticsRun.called /\ analyticsRun.type = "event_stats" /\ ~analyticsRun.threw
  /\ analyticsRun.result.defined /\ analyticsRun.result.n = 1
  /\ attendedCount["e1"] = 1

----------------------------------------------------------------------------
(* The chain of a generate_single job (SpecCert) *)

\* the jobs added to the queues by the step
Added == SubSeq(jobs', Len(jobs) + 1, Len(jobs'))

\* C22: a run of a generate_single job whose generation does not fail
\* completes the job, having produced the one certificate of the pair and
\* then enqueued exactly one certificate-ready notification job and one
\* certificate-ready email job; a run whose generation throws produces no
\* certificate and enqueues no job.
C22_CertificateThenChain ==
  [][(certRun' # certRun /\ certRun'.type = "generate_single") =>
       LET j == certRun'.job
           u == jobs[j].data.userId
       IN /\ (u \in Users /\ u \notin certRun'.failing) => ~certRun'.threw
          /\ ~certRun'.threw =>
               /\ jobs'[j].state = "completed"
               /\ certificates'[u] = 1
               /\ Len(Added) = 2
               /\ {Added[1].queue, Added[2].queue} = {"notification", "email"}
               /\ \A i \in 1..2 : Added[i].type = "certificate_ready" /\ Added[i].data.userId = u
          /\ certRun'.threw => (Added = <<>> /\ certificates' = certificates)]_vars

----------------------------------------------------------------------------
(* Cleaning the queues (SpecClean) *)

\* job i is removed by a clean in this step
CleanedNow(i) == jobs[i].removedBy = "none" /\ jobs'[i].removedBy = "clean"

\* C23: a clean with grace g removes every completed job that finished more
\* than g ago and every failed job that finished more than 2 x g ago, and
\* leaves as they are the waiting, active and delayed jobs, the completed
\* jobs that finished less than g ago and the failed jobs that finished less
\* than 2 x g ago.
C23_CleanRemovesOnlyOld ==
  [][(\E i \in DOMAIN jobs : CleanedNow(i)) =>
       \E g \in CleanGraces :
         \A i \in DOMAIN jobs :
           LET J == jobs[i]
               age == now - J.finishedOn
           IN /\ (J.state = "completed" /\ age > g) => CleanedNow(i)
              /\ (J.state = "failed" /\ age > 2 * g) => CleanedNow(i)
              /\ (\/ J.state \in {"waiting", "active", "delayed"}
                  \/ J.state = "completed" /\ age < g
                  \/ J.state = "failed" /\ age < 2 * g) => jobs'[i] = jobs[i]]_vars

\* a clean took a completed job older than an hour and left a failed job of
\* the same age
C23_Witness ==
  \E i, k \in DOMAIN jobs :
    /\ jobs[i].removedBy = "clean" /\ jobs[i].queue = StreamQueue
    /\ jobs[k].state = "failed" /\ jobs[k].finishedOn > 0
    /\ now - jobs[k].finishedOn > 3600000 /\ now - jobs[k].finishedOn < 7200000

----------------------------------------------------------------------------
(* Listing jobs (SpecList) *)

\* C24: a listing of a queue's jobs by status answers at most limit jobs,
\* 50 when no limit is given, and for a status that is none of waiting,
\* active, completed, failed and delayed it answers 200 with no job.
C24_ListAtMostLimit ==
  listRun.called =>
    /\ Len(listRun.jobs) <= listRun.limit
    /\ listRun.status \notin {"waiting", "active", "completed", "failed", "delayed"} =>
         (listRun.code = 200 /\ listRun.jobs = <<>>)

\* the 24h sweeps that have run to completion
SweepsDone == {j \in Sweeps24h : jobs[j].lastOutcome = "returned"}

\* the query of a 24h sweep run at time t finds event e
PickedUp(e, t) ==
  LET found == EventFind(t + 24 * Hour, t + 25 * Hour)
  IN \E i \in DOMAIN found : found[i] = e

\* the reminder jobs queue q has received for user u and event e
RemindersSent(q, u, e) ==
  {i \in DOMAIN jobs :
     /\ jobs[i].queue = q /\ jobs[i].type = "event_reminder"
     /\ jobs[i].data = [userId |-> u, eventId |-> e]}

CheckedIn(u, e) ==
  {r \in DOMAIN checkins :
     /\ checkins[r].userId = u /\ checkins[r].eventId = e
     /\ checkins[r].pc = "done" /\ checkins[r].res.status = 200
     /\ checkins[r].res.message \in {"Check-in successful", "Manual check-in successful"}}

\* the users whose registration for event e is marked attended
Attended(e) == {u \in Users : registeredEvents[u][e].attended}

CountMatches == \A e \in Events : attendedCount[e] >= 0 /\ attendedCount[e] = Cardinality(Attended(e))

\* the step is a scan of the ticket of a user who is already checked in
Rescan ==
  /\ scan' # scan
  /\ scan'.verification.valid
  /\ scan'.verification.data.userId \in Users /\ scan'.verification.data.eventId \in Events
  /\ registeredEvents[scan'.verification.data.userId][scan'.verification.data.eventId].attended

C28_RetryCountBounded == note.exists => note.retryCount <= note.maxRetries

\* the request has the admin's email and the right password, and the account
\* is active and not locked when it arrives
RightCredentials ==
  /\ loginRun'.found /\ loginRun'.passwordValid
  /\ admin.status = "active" /\ ~isLocked(admin, now)

\* C29: an admin account becomes locked (lockUntil set 2 hours ahead)
\* exactly when a failed password attempt brings loginAttempts to 5 and not
\* before; while the account is locked adminLogin rejects the request
\* whether or not the password is correct and leaves loginAttempts
\* unchanged; a successful login (the right password for an active account
\* that is not locked) resets loginAttempts to 0 and clears the lock.
C29_LockAfterFiveFailures ==
  [][loginRun' # loginRun =>
       /\ (admin'.lockUntil # admin.lockUntil /\ admin'.lockUntil # 0) =>
            /\ loginRun'.compared /\ ~loginRun'.passwordValid
            /\ admin'.loginAttempts = maxAttempts
            /\ admin'.lockUntil = now' + lockTime
       /\ (loginRun'.compared /\ ~loginRun'.passwordValid /\ admin'.loginAttempts = maxAttempts) =>
            admin'.lockUntil = now' + lockTime
       /\ isLocked(admin, now) => (loginRun'.status # 200 /\ admin' = admin)
       /\ RightCredentials =>
            /\ loginRun'.status = 200
            /\ admin'.loginAttempts = 0 /\ admin'.lockUntil = 0]_vars

====
